---- MODULE Spec2Model ----
(***************************************************************************)
(* Main DAG index of Cil-core: MainDagIndex (src/node/mainDagIndex.js)     *)
(* over StorageWithDagIndex (src/storage/storageWithDagIndex.js).          *)
(*                                                                         *)
(* Every async handler is a task that runs from one await to the next in   *)
(* one atomic step; the pc of a task names the await it is suspended at.   *)
(* Page objects live in a heap because the handlers pass them around by    *)
(* reference and mutate them in place.                                     *)
(***************************************************************************)
EXTENDS Integers, Sequences, FiniteSets, TLC

(***************************************************************************)
(* Configuration constants                                                 *)
(***************************************************************************)
MAIN_DAG_INDEX_STEP == 2

MAIN_DAG_PAGES_IN_MEMORY == 2

GENESIS_BLOCK == "G"

\* Number of concurrently running handlers of the concurrent specification.
NumTasks == 2

\* The order counter is unbounded in the code; handlers are only started while
\* they cannot take it above MaxOrder or below -MaxDeficit.
MaxOrder == 7

MaxDeficit == 1

\* How many handlers a behaviour starts: one after the other, and overlapping.
MaxOps == 3

MaxConcOps == 3

\* The queries the environment issues: one block of each page.
QueryHashes == {"A", "B", "D"}

(***************************************************************************)
(* The block store: a well-formed DAG of BlockInfos.  The height of a      *)
(* block is the length of the longest parent chain down to genesis.        *)
(*   G(0)  A(1,[G])  B(2,[A])  E(2,[A,G])  C(3,[B,E])  D(4,[C])            *)
(***************************************************************************)
Hashes == {"G", "A", "B", "E", "C", "D"}

getHeight(b) ==
    CASE b = "G" -> 0
      [] b = "A" -> 1
      [] b = "B" -> 2
      [] b = "E" -> 2
      [] b = "C" -> 3
      [] b = "D" -> 4

parentHashes(b) ==
    CASE b = "G" -> << >>
      [] b = "A" -> << "G" >>
      [] b = "B" -> << "A" >>
      [] b = "E" -> << "A", "G" >>
      [] b = "C" -> << "B", "E" >>
      [] b = "D" -> << "C" >>

Parents(b) == {parentHashes(b)[k] : k \in 1..Len(parentHashes(b))}

\* The block stores the index may run against: every BlockInfo available, or
\* the BlockInfo of C missing.
StoreChoices == {Hashes, Hashes \ {"C"}}

(***************************************************************************)
(* Maps with a finite domain (JS objects used as dictionaries)             *)
(***************************************************************************)
EmptyMap == [x \in {} |-> 0]

Put(f, k, v) == [x \in (DOMAIN f) \cup {k} |-> IF x = k THEN v ELSE f[x]]

Del(f, k) == [x \in (DOMAIN f) \ {k} |-> f[x]]

Tasks == 1..NumTasks


VARIABLES
    stored,      \* hashes whose BlockInfo storage.getBlockInfo returns
    pagesCache,  \* this._pagesCache: page index -> [timestamp, data (a heap reference)]
    heap,        \* the page objects: reference -> [arr, rows]
    db,          \* this._mainDagIndexStorage: key -> stored value
    clock,       \* Date.now()
    mutex,       \* this._mutex: lock name -> holding task (0: free)
    task,        \* the handlers in flight
    conc,        \* TRUE when handlers may overlap in time
    budget,      \* how many more handlers the environment starts
    added,       \* history: blocks with a returned addBlock and no later returned removeBlock
    last,        \* history: the operation that completed last
    pre,         \* history: what the handler in flight found when it started
    walk,        \* the locals and the result of _getBlocksFromLastKnown
    build,       \* the arguments and the outcome of _buildMainDagIndex
    other,       \* a second MainDagIndex constructed over the same storage
    calc         \* a function called on its own: its arguments and its value

vars == << stored, pagesCache, heap, db, clock, mutex, task, conc, budget, added, last, pre,
          walk, build, other, calc >>

(***************************************************************************)
(* Page objects.  A page is a JS object or (addBlock, line 61) a JS array  *)
(* carrying named properties: rows maps a block hash to                    *)
(* [proc |-> processed flag, ch |-> child hash -> child height].           *)
(***************************************************************************)
NewObject == [arr |-> FALSE, rows |-> EmptyMap]

NewArray == [arr |-> TRUE, rows |-> EmptyMap]

Row(p, c) == [proc |-> p, ch |-> c]

\* JSON.stringify of a page: an array is written as its indexed elements
\* only, so the rows hung on an array as named properties are not written.
JSONStringify(page) ==
    IF page.arr
    THEN [kind |-> "array", members |-> EmptyMap]
    ELSE [kind |-> "object", members |-> page.rows]

\* JSON.parse: "[...]" gives an array, "{...}" an object with its members
JSONParse(str) == [arr |-> str.kind = "array", rows |-> str.members]

\* Math.floor(nHeight / MAIN_DAG_INDEX_STEP) * (MAIN_DAG_INDEX_STEP - 1)
\* for the value nStep of the constant
PageIndexWithStep(nHeight, nStep) == (nHeight \div nStep) * (nStep - 1)

getPageIndexByHeight(nHeight) == PageIndexWithStep(nHeight, MAIN_DAG_INDEX_STEP)

strDagPrefix == "p"

\* a _getDbRecordIndex that leaves the prefix out
getDbRecordIndexNoPrefix(nPageIndex) == ToString(nPageIndex)

getDbRecordIndex(nPageIndex) == strDagPrefix \o "_" \o ToString(nPageIndex)

OrderKey(strPrefix) == strPrefix \o "_order"

PageIndexes == {getPageIndexByHeight(getHeight(b)) : b \in Hashes}

(***************************************************************************)
(* The page cache                                                          *)
(***************************************************************************)
\* Object.entries(cache) sorted by ascending timestamp.  Integer-like keys
\* are enumerated in ascending order and the sort is stable, so entries of
\* equal timestamp stay in key order.
Before(c, i, j) ==
    \/ c[i].timestamp < c[j].timestamp
    \/ c[i].timestamp = c[j].timestamp /\ i < j

Position(c, i) == 1 + Cardinality({j \in DOMAIN c : Before(c, j, i)})

\* .slice(MAIN_DAG_PAGES_IN_MEMORY - 1) of the sorted entries
SliceFrom(c) ==
    {i \in DOMAIN c : Position(c, i) > MAIN_DAG_PAGES_IN_MEMORY - 1}

releaseOldCachePages(c) ==
    IF Cardinality(DOMAIN c) > MAIN_DAG_PAGES_IN_MEMORY - 1
    THEN [i \in (DOMAIN c) \ SliceFrom(c) |-> c[i]]
    ELSE c

CacheEntry(ts, ref) == [timestamp |-> ts, data |-> ref]

(***************************************************************************)
(* Storage reads as the handlers see them                                  *)
(***************************************************************************)
\* +result.toString(): the number a stored decimal string stands for
OrderRange == (0 - MaxDeficit - 3)..(MaxOrder + 5)

ParseNumber(str) == CHOOSE n \in OrderRange : ToString(n) = str

\* result ? +result.toString() : 0
getMainDagIndexOrder ==
    IF OrderKey(strDagPrefix) \in DOMAIN db
    THEN ParseNumber(db[OrderKey(strDagPrefix)])
    ELSE 0

\* what storage.getMainDagPageIndex returns: {} for null, else {the page}
StoredPage(nPageIndex) ==
    IF getDbRecordIndex(nPageIndex) \in DOMAIN db
    THEN {JSONParse(db[getDbRecordIndex(nPageIndex)])}
    ELSE {}


(***************************************************************************)
(* What a query that ran alone from the current state would see            *)
(***************************************************************************)
\* the page _getMainDagPageIndex would hand out: {} for null, else {page}
PageNow(nPageIndex) ==
    IF nPageIndex \in DOMAIN pagesCache
    THEN {heap[pagesCache[nPageIndex].data]}
    ELSE StoredPage(nPageIndex)

RowsOf(optPage) == IF optPage = {} THEN EmptyMap ELSE (CHOOSE pg \in optPage : TRUE).rows

RowsNow(nPageIndex) == RowsOf(PageNow(nPageIndex))

\* indexPage && indexPage[strHash] && indexPage[strHash][0]
HasIn(rows, strHash) == strHash \in DOMAIN rows /\ rows[strHash].proc

\* a getChildren that does not look at the processed flag
ChildrenInAnyRow(rows, strHash) ==
    IF strHash \in DOMAIN rows THEN rows[strHash].ch ELSE EmptyMap

\* indexPage && indexPage[strHash] && indexPage[strHash][0] ? indexPage[strHash][1] : {}
ChildrenIn(rows, strHash) == IF HasIn(rows, strHash) THEN rows[strHash].ch ELSE EmptyMap

HasNow(strHash) == HasIn(RowsNow(getPageIndexByHeight(getHeight(strHash))), strHash)

ChildrenNow(strHash) == ChildrenIn(RowsNow(getPageIndexByHeight(getHeight(strHash))), strHash)

(***************************************************************************)
(* Tasks                                                                   *)
(***************************************************************************)
IdleTask ==
    [pc |-> "idle", op |-> "none", hash |-> GENESIS_BLOCK, i |-> 0, ref |-> 0,
     ret |-> "idle", idx |-> 0, val |-> {}, num |-> 0, delta |-> 0]

\* _getBlocksFromLastKnown not called: arrHashes, the loop positions,
\* mapKnownHashes, setBlocksToSend, mapCurrentLevel, mapNextLevel; recovery
\* tells that lines 197-198 ran; rec and has0 keep the child entries the index
\* held and the hashes has() was true for when the call started
NoWalk ==
    [st |-> "none", arr |-> << >>, i |-> 0, known |-> << >>, toSend |-> {},
     cur |-> << >>, next |-> << >>, j |-> 0, recovery |-> FALSE, rec |-> {},
     has0 |-> {}]

\* _buildMainDagIndex not called: its two arguments, the hashes whose
\* BlockInfo isBad(), whether it returned ("done") and whether it threw
NoBuild ==
    [st |-> "none", stable |-> << >>, pending |-> << >>, bad |-> {}, threw |-> FALSE]

NoPre == [order |-> 0, pages |-> EmptyMap]

\* no second instance constructed; made tells that the constructor ran,
\* prefix is its this._strDagPrefix
NoOther == [made |-> FALSE, prefix |-> ""]

\* no function called on its own; val is {} until the function returned
NoCalc == [fn |-> "none", args |-> << >>, val |-> {}]

NoLast == [op |-> "none", hash |-> GENESIS_BLOCK, threw |-> FALSE, fresh |-> FALSE,
           order0 |-> 0, row0 |-> {}]

Snapshot == [order |-> getMainDagIndexOrder, pages |-> [n \in PageIndexes |-> RowsNow(n)]]

NewRef(h) == CHOOSE r \in 1..(Cardinality(DOMAIN h) + 1) : r \notin DOMAIN h

\* Timestamps are only ever compared, so they are kept as ranks.
Stamps(c) == {c[n].timestamp : n \in DOMAIN c} \cup {clock}

Rank(c, v) == 1 + Cardinality({w \in Stamps(c) : w < v})

Live(c, tk) == ({c[n].data : n \in DOMAIN c} \cup {tk[u].ref : u \in Tasks}) \ {0}

\* the row of strHash in the page of its height: {} when absent, else {row}
OwnRowIn(pages, strHash) ==
    LET rows == pages[getPageIndexByHeight(getHeight(strHash))]
    IN IF strHash \in DOMAIN rows THEN {rows[strHash]} ELSE {}

\* References are only ever compared for identity, so the live objects are
\* renumbered after every step: first those the cache holds, by page index,
\* then those only a task holds, by task.
RefKey(c, tk, r) ==
    IF \E n \in DOMAIN c : c[n].data = r
    THEN CHOOSE n \in DOMAIN c : c[n].data = r /\ \A m \in DOMAIN c : c[m].data = r => n <= m
    ELSE 1000 + (CHOOSE u \in Tasks : tk[u].ref = r /\ \A v \in Tasks : tk[v].ref = r => u <= v)

Rename(c, tk, r) ==
    IF r = 0 THEN 0
    ELSE 1 + Cardinality({q \in Live(c, tk) : RefKey(c, tk, q) < RefKey(c, tk, r)})

\* One atomic step of task t: the new cache, heap, store, locks and task
\* record, and what the step tells the history variables.
Run(t, c2, h2, d2, m2, tk2, threw) ==
    /\ LET tks == [task EXCEPT ![t] = tk2] IN
       /\ pagesCache' = [n \in DOMAIN c2 |->
                            CacheEntry(Rank(c2, c2[n].timestamp), Rename(c2, tks, c2[n].data))]
       /\ task' = [u \in Tasks |-> [tks[u] EXCEPT !.ref = Rename(c2, tks, @)]]
       /\ heap' = [k \in 1..Cardinality(Live(c2, tks)) |->
                      h2[CHOOSE r \in Live(c2, tks) : Rename(c2, tks, r) = k]]
    /\ clock' = Rank(c2, clock)
    /\ db' = d2
    /\ mutex' = m2
    /\ UNCHANGED << stored, conc, build, other, calc >>
    /\ budget' = IF task[t].pc = "idle" THEN budget - 1 ELSE budget
    /\ IF conc
       THEN /\ UNCHANGED << last, pre >>
            /\ added' = IF tk2.pc # "idle" THEN added
                         ELSE CASE task[t].op = "add" /\ ~threw -> added \cup {task[t].hash}
                                [] task[t].op = "remove" -> added \ {task[t].hash}
                                [] OTHER -> added
       ELSE IF tk2.pc = "idle"
            THEN /\ pre' = NoPre
                 /\ last' = IF task[t].op \in {"add", "remove"}
                            THEN [op |-> task[t].op, hash |-> task[t].hash, threw |-> threw,
                                  fresh |-> task[t].op = "add" /\ task[t].hash \notin added,
                                  order0 |-> IF task[t].op = "add" THEN pre.order ELSE 0,
                                  row0 |-> IF task[t].op = "add"
                                           THEN OwnRowIn(pre.pages, task[t].hash) ELSE {}]
                            ELSE [NoLast EXCEPT !.op = "query"]
                 /\ added' = CASE task[t].op = "add" /\ ~threw -> added \cup {task[t].hash}
                               [] task[t].op = "remove" -> added \ {task[t].hash}
                               [] OTHER -> added
            ELSE IF task[t].pc = "idle"
                 THEN pre' = Snapshot /\ UNCHANGED << added, last >>
                 ELSE UNCHANGED << added, last, pre >>

\* a step of a handler of the index or of the storage: the locals of
\* _getBlocksFromLastKnown are out of its reach
Step(t, c2, h2, d2, m2, tk2, threw) == Run(t, c2, h2, d2, m2, tk2, threw) /\ UNCHANGED walk

\* The synchronous head of _getMainDagPageIndex(nH), run by the caller up to
\* its await: a hit refreshes the timestamp and returns the cached object,
\* a miss releases old pages and goes to the storage.
CallGet(c, tk, nH, r) ==
    LET n == getPageIndexByHeight(nH) IN
    IF n \in DOMAIN c
    THEN [c |-> [c EXCEPT ![n].timestamp = clock],
          tk |-> [tk EXCEPT !.ref = c[n].data, !.pc = r]]
    ELSE [c |-> releaseOldCachePages(c),
          tk |-> [tk EXCEPT !.ref = 0, !.idx = n, !.ret = r, !.pc = "get_acq"]]

\* The synchronous head of _setMainDagPageIndex(nH, ref)
CallSet(c, tk, nH, ref, r) ==
    LET n == getPageIndexByHeight(nH)
        c1 == IF n \notin DOMAIN c THEN releaseOldCachePages(c) ELSE c
    IN [c |-> Put(c1, n, CacheEntry(clock, ref)),
        tk |-> [tk EXCEPT !.ref = ref, !.idx = n, !.ret = r, !.pc = "set_acq"]]

\* storage.incMainDagIndexOrder(prefix, d) up to its first await
CallInc(tk, d, r) == [tk EXCEPT !.delta = d, !.ret = r, !.pc = "inc_acq"]

Finished == IdleTask

CanStart(t) ==
    /\ task[t].pc = "idle"
    /\ budget > 0
    /\ conc \/ \A u \in Tasks : task[u].pc = "idle"


(***************************************************************************)
(* StorageWithDagIndex: each call takes its named lock, does its KV        *)
(* request and releases the lock (storageWithDagIndex.js 40-87).           *)
(***************************************************************************)
\* getMainDagPageIndex: const lock = await this._mutex.acquire(['dagIndexPage'])
GetAcquire(t) ==
    /\ task[t].pc = "get_acq"
    /\ mutex["dagIndexPage"] = 0
    /\ Step(t, pagesCache, heap, db, [mutex EXCEPT !["dagIndexPage"] = t],
            [task[t] EXCEPT !.pc = "get_kv"], FALSE)

\* ... await this._mainDagIndexStorage.get(strPageIndex); JSON.parse; release
GetKv(t) ==
    /\ task[t].pc = "get_kv"
    /\ Step(t, pagesCache, heap, db, [mutex EXCEPT !["dagIndexPage"] = 0],
            [task[t] EXCEPT !.val = StoredPage(task[t].idx), !.pc = "get_ret"],
            FALSE)

\* _getMainDagPageIndex after its await (lines 185-193)
GetReturn(t) ==
    /\ task[t].pc = "get_ret"
    /\ LET tk == task[t]
           r == NewRef(heap)
       IN IF tk.val = {}
          THEN Step(t, pagesCache, heap, db, mutex,
                    [tk EXCEPT !.ref = 0, !.idx = 0, !.ret = "idle", !.pc = tk.ret],
                    FALSE)
          ELSE Step(t, Put(pagesCache, tk.idx, CacheEntry(clock, r)),
                    Put(heap, r, CHOOSE pg \in tk.val : TRUE), db, mutex,
                    [tk EXCEPT !.ref = r, !.val = {}, !.idx = 0, !.ret = "idle",
                               !.pc = tk.ret],
                    FALSE)

\* setMainDagPageIndex: acquire, then put(strPageIndex, JSON.stringify(arrHashes))
SetAcquire(t) ==
    /\ task[t].pc = "set_acq"
    /\ mutex["dagIndexPage"] = 0
    /\ Step(t, pagesCache, heap, db, [mutex EXCEPT !["dagIndexPage"] = t],
            [task[t] EXCEPT !.val = {JSONStringify(heap[task[t].ref])}, !.pc = "set_kv"],
            FALSE)

\* a setMainDagPageIndex that returns with the lock still held
SetKvNoRelease(t) ==
    /\ task[t].pc = "set_kv"
    /\ LET tk == task[t] IN
       Step(t, pagesCache, heap,
            Put(db, getDbRecordIndex(tk.idx), CHOOSE v \in tk.val : TRUE),
            mutex,
            [tk EXCEPT !.val = {}, !.idx = 0, !.ret = "idle", !.pc = tk.ret],
            FALSE)

SetKv(t) ==
    /\ task[t].pc = "set_kv"
    /\ LET tk == task[t] IN
       Step(t, pagesCache, heap,
            Put(db, getDbRecordIndex(tk.idx), CHOOSE v \in tk.val : TRUE),
            [mutex EXCEPT !["dagIndexPage"] = 0],
            [tk EXCEPT !.val = {}, !.idx = 0, !.ret = "idle", !.pc = tk.ret],
            FALSE)

\* incMainDagIndexOrder: acquire(['dagIndexOrder']), get, put, release
IncAcquire(t) ==
    /\ task[t].pc = "inc_acq"
    /\ mutex["dagIndexOrder"] = 0
    /\ Step(t, pagesCache, heap, db, [mutex EXCEPT !["dagIndexOrder"] = t],
            [task[t] EXCEPT !.pc = "inc_get"], FALSE)

\* an incMainDagIndexOrder that gives the lock back between its get and its put
IncKvGetReleasing(t) ==
    /\ task[t].pc = "inc_get"
    /\ Step(t, pagesCache, heap, db, [mutex EXCEPT !["dagIndexOrder"] = 0],
            [task[t] EXCEPT !.num = getMainDagIndexOrder, !.pc = "inc_put"],
            FALSE)

IncKvGet(t) ==
    /\ task[t].pc = "inc_get"
    /\ Step(t, pagesCache, heap, db, mutex,
            [task[t] EXCEPT !.num = getMainDagIndexOrder, !.pc = "inc_put"],
            FALSE)

IncKvPut(t) ==
    /\ task[t].pc = "inc_put"
    /\ LET tk == task[t] IN
       Step(t, pagesCache, heap, Put(db, OrderKey(strDagPrefix), ToString(tk.num + tk.delta)),
            [mutex EXCEPT !["dagIndexOrder"] = 0],
            [tk EXCEPT !.num = 0, !.delta = 0, !.ret = "idle", !.pc = tk.ret],
            FALSE)


(***************************************************************************)
(* MainDagIndex.addBlock (mainDagIndex.js 19-73)                           *)
(***************************************************************************)
\* the page a handler starts from when _getMainDagPageIndex gave null
ParentPageInit == NewObject

OwnPageInit == NewArray

\* a test that lets every lower parent through
IsDirectChildOrGap(nBlockHeight, nParentBlockHeight) == nBlockHeight - nParentBlockHeight >= 1

\* nBlockHeight - nParentBlockHeight === 1
IsDirectChild(nBlockHeight, nParentBlockHeight) == nBlockHeight - nParentBlockHeight = 1

\* the object a handler works on: the one it was handed, or a fresh one
Working(tk, init) ==
    LET r == IF tk.ref = 0 THEN NewRef(heap) ELSE tk.ref
    IN [ref |-> r, heap |-> IF tk.ref = 0 THEN Put(heap, r, init) ELSE heap]

SetRows(h, r, rows) == [h EXCEPT ![r].rows = rows]

\* next iteration of "for (const strParentBlockHash of blockInfo.parentHashes)",
\* or the "process block" part after the loop
AddNextParent(c, tk) ==
    IF tk.i < Len(parentHashes(tk.hash))
    THEN [c |-> c, tk |-> [tk EXCEPT !.i = tk.i + 1, !.ref = 0, !.pc = "add_info"]]
    ELSE CallGet(c, [tk EXCEPT !.i = 0], getHeight(tk.hash), "add_own")

addBlock(t, b) ==
    /\ CanStart(t)
    /\ LET tk == [IdleTask EXCEPT !.op = "add", !.hash = b]
           n == IF b # GENESIS_BLOCK
                THEN AddNextParent(pagesCache, tk)
                ELSE CallGet(pagesCache, tk, getHeight(b), "add_own")
       IN Step(t, n.c, heap, db, mutex, n.tk, FALSE)

\* an addBlock without the .catch(() => null): the rejection of getBlockInfo
\* for a parent the store does not have rejects addBlock
AddParentInfoNoCatch(t) ==
    /\ task[t].pc = "add_info"
    /\ LET tk == task[t]
           p == parentHashes(tk.hash)[tk.i]
       IN IF p \notin stored
          THEN Step(t, pagesCache, heap, db, mutex, Finished, TRUE)
          ELSE LET n == CallGet(pagesCache, tk, getHeight(p), "add_par")
               IN Step(t, n.c, heap, db, mutex, n.tk, FALSE)

\* await this._storage.getBlockInfo(strParentBlockHash).catch(() => null)
AddParentInfo(t) ==
    /\ task[t].pc = "add_info"
    /\ LET tk == task[t]
           p == parentHashes(tk.hash)[tk.i]
           n == IF p \notin stored
                THEN AddNextParent(pagesCache, tk)
                ELSE CallGet(pagesCache, tk, getHeight(p), "add_par")
       IN Step(t, n.c, heap, db, mutex, n.tk, FALSE)

\* lines 36-54, after "await this._getMainDagPageIndex(nParentBlockHeight)"
AddParent(t) ==
    /\ task[t].pc = "add_par"
    /\ LET tk == task[t]
           b == tk.hash
           p == parentHashes(b)[tk.i]
           w == Working(tk, ParentPageInit)
           rows == w.heap[w.ref].rows
       IN IF IsDirectChild(getHeight(b), getHeight(p))
          THEN IF p \notin DOMAIN rows
               THEN Step(t, pagesCache,
                         SetRows(w.heap, w.ref,
                                 Put(rows, p, Row(FALSE, Put(EmptyMap, b, getHeight(b))))),
                         db, mutex,
                         CallInc([tk EXCEPT !.ref = w.ref], 1, "add_par_set"),
                         FALSE)
               ELSE LET n == CallSet(pagesCache, tk, getHeight(p), w.ref, "add_par_done")
                    IN Step(t, n.c,
                            SetRows(w.heap, w.ref,
                                    Put(rows, p, Row(rows[p].proc,
                                                     Put(rows[p].ch, b, getHeight(b))))),
                            db, mutex, n.tk, FALSE)
          ELSE LET n == CallSet(pagesCache, tk, getHeight(p), w.ref, "add_par_done")
               IN Step(t, n.c, w.heap, db, mutex, n.tk, FALSE)

\* line 54 after the await of line 45
AddParentSet(t) ==
    /\ task[t].pc = "add_par_set"
    /\ LET tk == task[t]
           p == parentHashes(tk.hash)[tk.i]
           n == CallSet(pagesCache, tk, getHeight(p), tk.ref, "add_par_done")
       IN Step(t, n.c, heap, db, mutex, n.tk, FALSE)

AddParentDone(t) ==
    /\ task[t].pc = "add_par_done"
    /\ LET n == AddNextParent(pagesCache, task[t])
       IN Step(t, n.c, heap, db, mutex, n.tk, FALSE)

\* lines 60-72, after "await this._getMainDagPageIndex(nBlockHeight)"
AddOwn(t) ==
    /\ task[t].pc = "add_own"
    /\ LET tk == task[t]
           b == tk.hash
           w == Working(tk, OwnPageInit)
           rows == w.heap[w.ref].rows
       IN IF b \notin DOMAIN rows
          THEN Step(t, pagesCache,
                    SetRows(w.heap, w.ref, Put(rows, b, Row(TRUE, EmptyMap))),
                    db, mutex,
                    CallInc([tk EXCEPT !.ref = w.ref], 1, "add_own_set"),
                    FALSE)
          ELSE LET n == CallSet(pagesCache, tk, getHeight(b), w.ref, "add_done")
               IN Step(t, n.c,
                       IF rows[b].proc THEN w.heap
                       ELSE SetRows(w.heap, w.ref, Put(rows, b, Row(TRUE, rows[b].ch))),
                       db, mutex, n.tk, FALSE)

\* line 72 after the await of line 67
AddOwnSet(t) ==
    /\ task[t].pc = "add_own_set"
    /\ LET tk == task[t]
           n == CallSet(pagesCache, tk, getHeight(tk.hash), tk.ref, "add_done")
       IN Step(t, n.c, heap, db, mutex, n.tk, FALSE)

AddDone(t) ==
    /\ task[t].pc = "add_done"
    /\ Step(t, pagesCache, heap, db, mutex, Finished, FALSE)

(***************************************************************************)
(* MainDagIndex.removeBlock (mainDagIndex.js 75-114)                       *)
(***************************************************************************)
\* the height whose page index line 111 writes the parent's page under
RemoveParentSetHeight(nBlockHeight, nParentBlockHeight) == nBlockHeight

\* next iteration of the loop of line 91, or the end of the handler
RemNextParent(tk) ==
    IF tk.i < Len(parentHashes(tk.hash))
    THEN [tk EXCEPT !.i = tk.i + 1, !.ref = 0, !.pc = "rem_info"]
    ELSE Finished

removeBlock(t, b) ==
    /\ CanStart(t)
    /\ LET n == CallGet(pagesCache, [IdleTask EXCEPT !.op = "remove", !.hash = b],
                        getHeight(b), "rem_own")
       IN Step(t, n.c, heap, db, mutex, n.tk, FALSE)

\* lines 82-87
RemOwn(t) ==
    /\ task[t].pc = "rem_own"
    /\ LET tk == task[t]
           b == tk.hash
       IN IF tk.ref = 0
          THEN Step(t, pagesCache, heap, db, mutex, Finished, FALSE)
          ELSE IF b \in DOMAIN heap[tk.ref].rows
               THEN LET n == CallSet(pagesCache, tk, getHeight(b), tk.ref, "rem_own_set")
                    IN Step(t, n.c, SetRows(heap, tk.ref, Del(heap[tk.ref].rows, b)),
                            db, mutex, n.tk, FALSE)
               ELSE Step(t, pagesCache, heap, db, mutex, RemNextParent(tk),
                         FALSE)

\* line 88
RemOwnSet(t) ==
    /\ task[t].pc = "rem_own_set"
    /\ Step(t, pagesCache, heap, db, mutex, CallInc(task[t], -1, "rem_own_dec"),
            FALSE)

RemOwnDec(t) ==
    /\ task[t].pc = "rem_own_dec"
    /\ Step(t, pagesCache, heap, db, mutex, RemNextParent(task[t]), FALSE)

\* lines 92-97
RemParentInfo(t) ==
    /\ task[t].pc = "rem_info"
    /\ LET tk == task[t]
           p == parentHashes(tk.hash)[tk.i]
       IN IF p \notin stored
          THEN Step(t, pagesCache, heap, db, mutex, RemNextParent(tk), FALSE)
          ELSE LET n == CallGet(pagesCache, tk, getHeight(p), "rem_par")
               IN Step(t, n.c, heap, db, mutex, n.tk, FALSE)

\* lines 98-111.  Destructuring the missing row of line 100 throws a
\* TypeError, which ends the handler.
RemParent(t) ==
    /\ task[t].pc = "rem_par"
    /\ LET tk == task[t]
           b == tk.hash
           p == parentHashes(b)[tk.i]
       IN IF tk.ref = 0
          THEN Step(t, pagesCache, heap, db, mutex, RemNextParent(tk), FALSE)
          ELSE LET rows == heap[tk.ref].rows IN
               IF p \notin DOMAIN rows
               THEN Step(t, pagesCache, heap, db, mutex, Finished, TRUE)
               ELSE LET objChildren == rows[p].ch
                        bIsProcessed == rows[p].proc
                    IN IF b \in DOMAIN objChildren /\ objChildren[b] # 0
                       THEN IF Del(objChildren, b) = EmptyMap /\ ~bIsProcessed
                            THEN Step(t, pagesCache, SetRows(heap, tk.ref, Del(rows, p)),
                                      db, mutex, CallInc(tk, -1, "rem_par_set"),
                                      FALSE)
                            ELSE LET n == CallSet(pagesCache, tk,
                                                  RemoveParentSetHeight(getHeight(b),
                                                                        getHeight(p)),
                                                  tk.ref, "rem_par_done")
                                 IN Step(t, n.c,
                                         SetRows(heap, tk.ref,
                                                 Put(rows, p,
                                                     Row(bIsProcessed, Del(objChildren, b)))),
                                         db, mutex, n.tk, FALSE)
                       ELSE Step(t, pagesCache, heap, db, mutex, RemNextParent(tk),
                                 FALSE)

\* line 111 after the await of line 106
RemParentSet(t) ==
    /\ task[t].pc = "rem_par_set"
    /\ LET tk == task[t]
           p == parentHashes(tk.hash)[tk.i]
           n == CallSet(pagesCache, tk,
                        RemoveParentSetHeight(getHeight(tk.hash), getHeight(p)),
                        tk.ref, "rem_par_done")
       IN Step(t, n.c, heap, db, mutex, n.tk, FALSE)

RemParentDone(t) ==
    /\ task[t].pc = "rem_par_done"
    /\ Step(t, pagesCache, heap, db, mutex, RemNextParent(task[t]), FALSE)

(***************************************************************************)
(* Queries (mainDagIndex.js 116-150)                                       *)
(***************************************************************************)
has(t, b) ==
    /\ CanStart(t)
    /\ LET n == CallGet(pagesCache, [IdleTask EXCEPT !.op = "has", !.hash = b],
                        getHeight(b), "has_ret")
       IN Step(t, n.c, heap, db, mutex, n.tk, FALSE)

HasReturn(t) ==
    /\ task[t].pc = "has_ret"
    /\ LET tk == task[t]
       IN Step(t, pagesCache, heap, db, mutex, Finished, FALSE)

getChildren(t, b) ==
    /\ CanStart(t)
    /\ LET n == CallGet(pagesCache, [IdleTask EXCEPT !.op = "children", !.hash = b],
                        getHeight(b), "ch_ret")
       IN Step(t, n.c, heap, db, mutex, n.tk, FALSE)

GetChildrenReturn(t) ==
    /\ task[t].pc = "ch_ret"
    /\ LET tk == task[t]
       IN Step(t, pagesCache, heap, db, mutex, Finished, FALSE)

(***************************************************************************)
(* Time passes.  A tick nobody could observe is left out: the clock only   *)
(* moves past a timestamp somebody holds.                                  *)
(***************************************************************************)
Tick ==
    /\ \E n \in DOMAIN pagesCache : pagesCache[n].timestamp = clock
    /\ clock' = clock + 1
    /\ UNCHANGED << stored, pagesCache, heap, db, mutex, task, conc, budget, added, last, pre,
                    walk, build, other, calc >>

(***************************************************************************)
(* Specifications                                                          *)
(***************************************************************************)
InitIndex ==
    /\ stored \in StoreChoices
    /\ pagesCache = EmptyMap
    /\ heap = EmptyMap
    /\ db = EmptyMap
    /\ clock = 1
    /\ mutex = [n \in {"dagIndexPage", "dagIndexOrder"} |-> 0]
    /\ task = [t \in Tasks |-> IdleTask]
    /\ added = {}
    /\ last = NoLast
    /\ pre = NoPre
    /\ walk = NoWalk
    /\ build = NoBuild
    /\ other = NoOther
    /\ calc = NoCalc

Init == InitIndex /\ conc = FALSE /\ budget = MaxOps

InitBuild == InitIndex /\ stored = Hashes /\ conc = FALSE /\ budget = Cardinality(Hashes)

InitConc == InitIndex /\ stored = Hashes /\ conc = TRUE /\ budget = MaxConcOps

\* the steps that take a started handler from one await to the next
AddSteps(t) ==
    \/ AddParentInfo(t)
    \/ AddParent(t)
    \/ AddParentSet(t)
    \/ AddParentDone(t)
    \/ AddOwn(t)
    \/ AddOwnSet(t)
    \/ AddDone(t)

RemoveSteps(t) ==
    \/ RemOwn(t)
    \/ RemOwnSet(t)
    \/ RemOwnDec(t)
    \/ RemParentInfo(t)
    \/ RemParent(t)
    \/ RemParentSet(t)
    \/ RemParentDone(t)

StorageSteps(t) ==
    \/ GetAcquire(t)
    \/ GetKv(t)
    \/ GetReturn(t)
    \/ SetAcquire(t)
    \/ SetKv(t)
    \/ IncAcquire(t)
    \/ IncKvGet(t)
    \/ IncKvPut(t)

\* the calls that keep the order counter within the bounds
CanAdd(b) == getMainDagIndexOrder + 1 + Len(parentHashes(b)) <= MaxOrder

CanRemove(b) == getMainDagIndexOrder - 1 - Len(parentHashes(b)) >= -MaxDeficit

\* One client (task 1) adds and removes blocks, each call after the previous
\* one returned.
Next ==
    \/ \E b \in Hashes : CanAdd(b) /\ addBlock(1, b)
    \/ \E b \in Hashes : CanRemove(b) /\ removeBlock(1, b)
    \/ AddSteps(1)
    \/ RemoveSteps(1)
    \/ StorageSteps(1)
    \/ Tick

Spec == Init /\ [][Next]_vars

\* The same client also queries between its calls.
NextQuery ==
    \/ Next
    \/ \E b \in QueryHashes : has(1, b)
    \/ \E b \in QueryHashes : getChildren(1, b)
    \/ HasReturn(1)
    \/ GetChildrenReturn(1)

SpecQuery == Init /\ [][NextQuery]_vars

\* The whole DAG is indexed: every block is added once, in any order, with
\* every BlockInfo available.
NextBuild ==
    \/ \E b \in Hashes \ added : addBlock(1, b)
    \/ AddSteps(1)
    \/ StorageSteps(1)
    \/ Tick

SpecBuild == InitBuild /\ [][NextBuild]_vars

\* The block processor (task 1) adds blocks while a peer-sync handler
\* (task 2) queries; the calls of the two overlap in time.
NextConc ==
    \/ \E b \in Hashes : CanAdd(b) /\ addBlock(1, b)
    \/ \E b \in QueryHashes : has(2, b)
    \/ \E t \in Tasks : AddSteps(t)
    \/ \E t \in Tasks : HasReturn(t)
    \/ \E t \in Tasks : StorageSteps(t)
    \/ Tick

SpecConc == InitConc /\ [][NextConc]_vars

(***************************************************************************)
(* Properties                                                              *)
(***************************************************************************)
Idle == \A t \in Tasks : task[t].pc = "idle"

\* the step in which the handler op of the client returns
Completes(op) == task[1].op = op /\ task[1].pc # "idle" /\ task'[1].pc = "idle"

\* C1: when addBlock(b) returns and the call before it was an addBlock(b) too,
\* getOrder() and the rows of every page (processed flags, child maps) are
\* what they were when this call started, that is, after the earlier call.
C1_AddIdempotent ==
    [][Completes("add") /\ last.op = "add" /\ last.hash = task[1].hash
       => Snapshot' = pre]_vars

\* the rows a successful addBlock(b) is to create on the pages it finds
RowsToCreate(pages, b) ==
    ({b} \ DOMAIN pages[getPageIndexByHeight(getHeight(b))])
    \cup {p \in Parents(b) \cap stored :
             /\ getHeight(b) - getHeight(p) = 1
             /\ p \notin DOMAIN pages[getPageIndexByHeight(getHeight(p))]}

\* C2: when addBlock(b) returns, the order counter has grown by the number of
\* rows b and its direct, available parents were lacking when the call
\* started: one for b's own row if absent, one for each such parent row if
\* absent, nothing for a promotion or for a child added to an existing row.
C2_AddCountsNewRows ==
    [][Completes("add")
       => getMainDagIndexOrder' = pre.order + Cardinality(RowsToCreate(pre.pages, task[1].hash))]_vars

TotalRows(n) == Cardinality(DOMAIN RowsNow(n))

RECURSIVE SumRows(_)
SumRows(S) ==
    IF S = {} THEN 0
    ELSE LET n == CHOOSE m \in S : TRUE IN TotalRows(n) + SumRows(S \ {n})

\* C3: between the calls of a sequence of addBlock and removeBlock calls,
\* getOrder() is the number of rows, processed and placeholder, over all pages.
C3_OrderCountsRows == Idle => getMainDagIndexOrder = SumRows(PageIndexes)

\* C4: between the calls of a sequence of addBlock and removeBlock calls,
\* has(b) answers true exactly for the blocks added and not removed since,
\* and a processed row of b is found in the page of b's height only.
C4_Membership ==
    Idle => \A b \in Hashes :
                /\ HasNow(b) <=> b \in added
                /\ \A n \in PageIndexes :
                       HasIn(RowsNow(n), b) => n = getPageIndexByHeight(getHeight(b))

\* the blocks one level above p that name p as a parent, with their heights
DirectChildren(p) ==
    LET S == {c \in Hashes : p \in Parents(c) /\ getHeight(c) - getHeight(p) = 1}
    IN [c \in S |-> getHeight(c)]

\* C5: once addBlock has returned for every block of the DAG, whatever the
\* order of the calls, getChildren(p) is the map from the direct children of
\* p to their heights, for every block p.
C5_ChildRetrieval ==
    Idle /\ added = Hashes => \A p \in Hashes : ChildrenNow(p) = DirectChildren(p)

\* every page object there is: in memory and in the store
AllPages == {heap[r] : r \in DOMAIN heap} \cup UNION {StoredPage(n) : n \in PageIndexes}

NoGapEdge ==
    \A pg \in AllPages : \A p \in DOMAIN pg.rows : \A c \in DOMAIN pg.rows[p].ch :
        getHeight(c) - getHeight(p) = 1

\* addBlock, back from _getMainDagPageIndex for a parent more than one level
\* below the block: it goes on to write the page back with the rows it found,
\* and does not count a row
GapParentStep ==
    LET b == task[1].hash
        p == parentHashes(b)[task[1].i]
    IN task[1].pc = "add_par" /\ task'[1].pc # "add_par" /\ getHeight(b) - getHeight(p) > 1
       => /\ task'[1].pc = "set_acq"
          /\ heap'[task'[1].ref].rows =
                 IF task[1].ref = 0 THEN EmptyMap ELSE heap[task[1].ref].rows
          /\ db' = db

\* a returning addBlock(b) has counted at most b and its direct parents
GapParentNotCounted ==
    LET b == task[1].hash
    IN Completes("add")
       => getMainDagIndexOrder' - pre.order
              <= 1 + Cardinality({p \in Parents(b) : getHeight(b) - getHeight(p) = 1})

\* C6: no child map, in memory or in the store, ever names a block more than
\* one level above the row's block; and addBlock(b) neither creates a row
\* nor counts one for a parent more than one level below b.
C6_NoGapEdges == []NoGapEdge /\ [][GapParentStep /\ GapParentNotCounted]_vars

\* C6 witness: E, whose parent G lies two levels below, is added and G has a row
C6_Witness ==
    /\ Idle
    /\ "E" \in added
    /\ "G" \in DOMAIN RowsNow(getPageIndexByHeight(getHeight("G")))

\* C7: when removeBlock(b) returns and the call before it was an addBlock(b)
\* of a block not added at the time, getOrder() and the row of b in the page
\* of b's height are what they were before that addBlock: an absent row is
\* absent, a placeholder row is the same placeholder row.
C7_RoundTrip ==
    [][Completes("remove") /\ last.op = "add" /\ last.hash = task[1].hash /\ last.fresh
       => /\ getMainDagIndexOrder' = last.order0
          /\ OwnRowIn(Snapshot'.pages, task[1].hash) = last.row0]_vars

\* the parents of b whose row is a placeholder with b as its only child
OnlyChildOf(pages, b) ==
    {p \in Parents(b) \cap stored :
        LET rows == pages[getPageIndexByHeight(getHeight(p))]
        IN p \in DOMAIN rows /\ ~rows[p].proc /\ DOMAIN rows[p].ch = {b}}

\* what removeBlock(b) is to leave of the row of parent p, given the rows of
\* p's page before the call
ParentRowAfter(rows0, rows1, p, b) ==
    IF p \notin DOMAIN rows0 THEN p \in DOMAIN rows1 => b \notin DOMAIN rows1[p].ch
    ELSE IF ~rows0[p].proc /\ DOMAIN rows0[p].ch = {b} THEN p \notin DOMAIN rows1
    ELSE p \in DOMAIN rows1 /\ rows1[p] = Row(rows0[p].proc, Del(rows0[p].ch, b))

\* C8: when removeBlock(b) returns for an indexed block b, every available
\* parent p has lost the child b; a placeholder row whose only child was b is
\* gone and counted off, any other row keeps its flag and its other children;
\* and this is so in the page the index hands out for p's height and in the
\* record stored under that page's key.
C8_RemoveUpdatesParents ==
    [][LET b == task[1].hash
       IN Completes("remove") /\ HasIn(pre.pages[getPageIndexByHeight(getHeight(b))], b)
          => /\ \A p \in Parents(b) \cap stored :
                    LET n == getPageIndexByHeight(getHeight(p))
                    IN /\ ParentRowAfter(pre.pages[n], RowsNow(n)', p, b)
                       /\ ParentRowAfter(pre.pages[n], RowsOf(StoredPage(n))', p, b)
             /\ getMainDagIndexOrder'
                    = pre.order - 1 - Cardinality(OnlyChildOf(pre.pages, b))]_vars

\* C9: between the calls, every cached page has the rows of the record the
\* store returns for its key.
C9_WriteThrough ==
    Idle => \A n \in DOMAIN pagesCache :
                heap[pagesCache[n].data].rows = RowsOf(StoredPage(n))

\* C10: the cache never holds more than MAIN_DAG_PAGES_IN_MEMORY pages, also
\* between the awaits of overlapping handlers.
C10_CacheCapacity == Cardinality(DOMAIN pagesCache) <= MAIN_DAG_PAGES_IN_MEMORY

\* C11: whenever pages leave the cache, every page that stays was accessed
\* no earlier than every page that leaves.
C11_EvictsOldest ==
    [][\A e \in DOMAIN pagesCache \ DOMAIN pagesCache' :
           \A k \in DOMAIN pagesCache \cap DOMAIN pagesCache' :
               pagesCache[k].timestamp >= pagesCache[e].timestamp]_vars

(***************************************************************************)
(* Two overlapping calls                                                   *)
(***************************************************************************)
\* the blocks of the pages 0 and 1, which the cache holds together
PairHashes == {b \in Hashes : getPageIndexByHeight(getHeight(b)) < MAIN_DAG_PAGES_IN_MEMORY}

InitPair == InitIndex /\ stored = Hashes /\ conc = TRUE /\ budget = 2

\* Two addBlock calls on a new index, by two callers or by one, overlapping
\* in time or not.
NextPair ==
    \/ \E t \in Tasks : \E b \in PairHashes : addBlock(t, b)
    \/ \E t \in Tasks : AddSteps(t)
    \/ \E t \in Tasks : StorageSteps(t)
    \/ Tick

SpecPair == InitPair /\ [][NextPair]_vars

\* addBlock run alone, as a function of what the index shows: the order
\* counter and the rows of every page (mainDagIndex.js 28-72)
SeqAddParent(st, b, p) ==
    LET n == getPageIndexByHeight(getHeight(p))
        rows == st.pages[n]
    IN IF p \notin stored \/ ~IsDirectChild(getHeight(b), getHeight(p)) THEN st
       ELSE IF p \notin DOMAIN rows
       THEN [order |-> st.order + 1,
             pages |-> [st.pages EXCEPT
                           ![n] = Put(rows, p, Row(FALSE, Put(EmptyMap, b, getHeight(b))))]]
       ELSE [st EXCEPT !.pages[n] =
                           Put(rows, p, Row(rows[p].proc, Put(rows[p].ch, b, getHeight(b))))]

RECURSIVE SeqAddParents(_, _, _)
SeqAddParents(st, b, k) ==
    IF k = 0 THEN st
    ELSE SeqAddParent(SeqAddParents(st, b, k - 1), b, parentHashes(b)[k])

SeqAddOwn(st, b) ==
    LET n == getPageIndexByHeight(getHeight(b))
        rows == st.pages[n]
    IN IF b \notin DOMAIN rows
       THEN [order |-> st.order + 1,
             pages |-> [st.pages EXCEPT ![n] = Put(rows, b, Row(TRUE, EmptyMap))]]
       ELSE [st EXCEPT !.pages[n] = Put(rows, b, Row(TRUE, rows[b].ch))]

SeqAdd(st, b) == SeqAddOwn(SeqAddParents(st, b, Len(parentHashes(b))), b)

NewIndex == [order |-> 0, pages |-> [n \in PageIndexes |-> EmptyMap]]

\* the pages addBlock(b) reads and writes
PagesOf(b) ==
    {getPageIndexByHeight(getHeight(x)) : x \in {b} \cup (Parents(b) \cap stored)}

\* C12: once two addBlock calls on a new index that touch a common page have
\* both returned, overlapping or not, getOrder() and the rows of every page
\* are those of the two calls run one after the other, in one of the two
\* orders.
C12_PairSerialisable ==
    Idle /\ budget = 0
    => \A b1, b2 \in PairHashes :
           added = {b1, b2} /\ PagesOf(b1) \cap PagesOf(b2) # {}
           => Snapshot \in {SeqAdd(SeqAdd(NewIndex, b1), b2), SeqAdd(SeqAdd(NewIndex, b2), b1)}

(***************************************************************************)
(* NodeDagIndex._getBlocksFromLastKnown (nodeDagIndex.js 179-230)          *)
(***************************************************************************)
MAX_BLOCKS_INV == 2

\* a hash no block of the DAG has
UNKNOWN_HASH == "X"

\* the lastKnown lists a peer sends
LastKnownChoices ==
    {<< h >> : h \in Hashes \cup {UNKNOWN_HASH}} \cup {<< UNKNOWN_HASH, "B" >>, << "B", "E" >>}

\* Maps keep their keys in insertion order: a Map is a sequence of
\* [h |-> key, n |-> value] with distinct keys.
MapKeys(mp) == {mp[k].h : k \in 1..Len(mp)}

\* Map.set: a new key goes last, a present key keeps its place
MapSet(mp, strHash, nHeight) ==
    IF strHash \in MapKeys(mp)
    THEN [k \in 1..Len(mp) |-> IF mp[k].h = strHash THEN [h |-> strHash, n |-> nHeight] ELSE mp[k]]
    ELSE Append(mp, [h |-> strHash, n |-> nHeight])

\* the orders "for (const strChildHash in objChildren)" may take: the keys
\* come in the order they were set, which the rows do not keep
KeyOrders(objChildren) ==
    {sq \in [1..Cardinality(DOMAIN objChildren) -> DOMAIN objChildren] :
        \A x, y \in DOMAIN sq : x # y => sq[x] # sq[y]}

\* lines 214-219 for the children in the order sq, from position k on
RECURSIVE SetChildren(_, _, _, _, _)
SetChildren(w, objChildren, sq, k, mp) ==
    IF k > Len(sq) THEN mp
    ELSE SetChildren(w, objChildren, sq, k + 1,
                     IF sq[k] \notin MapKeys(w.known) /\ sq[k] \notin w.toSend
                     THEN MapSet(mp, sq[k], objChildren[sq[k]])
                     ELSE mp)

\* every <<parent, child>> of a child map of a row, in memory or in the store
RecordedEntries ==
    {e \in Hashes \X Hashes :
        \E pg \in {heap[r] : r \in DOMAIN heap} \cup UNION {StoredPage(n) : n \in PageIndexes} :
            e[1] \in DOMAIN pg.rows /\ e[2] \in DOMAIN pg.rows[e[1]].ch}

\* a walker that answers with the hashes the peer has already, too
WalkReturnWithKnown(w, sent) ==
    [w EXCEPT !.st = "done", !.toSend = sent \cup MapKeys(w.known)]

\* the walker returns setBlocksToSend
WalkReturn(w, sent) == [w EXCEPT !.st = "done", !.toSend = sent]

\* an iteration that starts over at the first hash of the level
WalkGetChildrenFromFirst(c, tk, w) ==
    LET n == CallGet(c, tk, w.cur[1].n, "wk_ch")
    IN [c |-> n.c, tk |-> n.tk, w |-> [w EXCEPT !.j = 1]]

\* the head of an iteration of "for (const strHash of mapCurrentLevel.keys())":
\* getChildren(strHash, height) up to its await
WalkGetChildren(c, tk, w) ==
    LET n == CallGet(c, tk, w.cur[w.j].n, "wk_ch")
    IN [c |-> n.c, tk |-> n.tk, w |-> w]

\* a walker that starts its levels with the known hashes already in the answer
WalkBeginLevelsSendingKnown(c, tk, w) ==
    WalkGetChildren(c, tk, [w EXCEPT !.cur = w.known, !.next = << >>, !.j = 1,
                                     !.toSend = w.toSend \cup MapKeys(w.known)])

\* line 208 and the first pass of the do-loop
WalkBeginLevels(c, tk, w) ==
    WalkGetChildren(c, tk, [w EXCEPT !.cur = w.known, !.next = << >>, !.j = 1])

\* the next hash of arrHashes, or what follows the loop of lines 183-188
WalkNextKnown(c, tk, w) ==
    IF w.i < Len(w.arr)
    THEN [c |-> c, tk |-> [tk EXCEPT !.ref = 0, !.pc = "wk_info"], w |-> [w EXCEPT !.i = w.i + 1]]
    ELSE IF Len(w.known) = 0
    THEN [c |-> c, tk |-> [tk EXCEPT !.ref = 0, !.pc = "wk_ginfo"], w |-> w]
    ELSE WalkBeginLevels(c, tk, w)

walkStart(t, arrHashes) ==
    /\ CanStart(t)
    /\ walk.st = "none"
    /\ Run(t, pagesCache, heap, db, mutex,
           [IdleTask EXCEPT !.op = "walk", !.pc = "wk_info"], FALSE)
    /\ walk' = [NoWalk EXCEPT !.st = "run", !.arr = arrHashes, !.i = 1,
                               !.rec = RecordedEntries,
                               !.has0 = {h \in stored : HasNow(h)}]

\* getBlockHeight (mainDagIndex.js 125-134) after its getBlockInfo
WalkKnownInfo(t) ==
    /\ task[t].pc = "wk_info"
    /\ LET strHash == walk.arr[walk.i]
           n == IF strHash \notin stored
                THEN WalkNextKnown(pagesCache, task[t], walk)
                ELSE LET g == CallGet(pagesCache, task[t], getHeight(strHash), "wk_has")
                     IN [c |-> g.c, tk |-> g.tk, w |-> walk]
       IN Run(t, n.c, heap, db, mutex, n.tk, FALSE) /\ walk' = n.w

\* has() answers; lines 185-187
WalkKnownHas(t) ==
    /\ task[t].pc = "wk_has"
    /\ LET tk == task[t]
           strHash == walk.arr[walk.i]
           rows == IF tk.ref = 0 THEN EmptyMap ELSE heap[tk.ref].rows
           w == IF HasIn(rows, strHash)
                THEN [walk EXCEPT !.known = MapSet(@, strHash, getHeight(strHash))]
                ELSE walk
           n == WalkNextKnown(pagesCache, tk, w)
       IN Run(t, n.c, heap, db, mutex, n.tk, FALSE) /\ walk' = n.w

\* line 195: getBlockHeight(GENESIS_BLOCK) after its getBlockInfo
WalkGenesisInfo(t) ==
    /\ task[t].pc = "wk_ginfo"
    /\ IF GENESIS_BLOCK \notin stored
       THEN Run(t, pagesCache, heap, db, mutex, Finished, FALSE) /\ walk' = WalkReturn(walk, {})
       ELSE LET g == CallGet(pagesCache, task[t], getHeight(GENESIS_BLOCK), "wk_ghas")
            IN Run(t, g.c, heap, db, mutex, g.tk, FALSE) /\ UNCHANGED walk

\* lines 197-205
WalkGenesisHas(t) ==
    /\ task[t].pc = "wk_ghas"
    /\ LET tk == task[t]
           rows == IF tk.ref = 0 THEN EmptyMap ELSE heap[tk.ref].rows
       IN IF HasIn(rows, GENESIS_BLOCK)
          THEN LET n == WalkBeginLevels(pagesCache, tk,
                            [walk EXCEPT !.known = MapSet(@, GENESIS_BLOCK, getHeight(GENESIS_BLOCK)),
                                         !.toSend = {GENESIS_BLOCK},
                                         !.recovery = TRUE])
               IN Run(t, n.c, heap, db, mutex, n.tk, FALSE) /\ walk' = n.w
          ELSE Run(t, pagesCache, heap, db, mutex, Finished, FALSE)
               /\ walk' = WalkReturn(walk, {})

\* a do-while that goes on as long as there is a next level
WalkGoesOnUncapped(mapNextLevel, setBlocksToSend) == Len(mapNextLevel) > 0

\* line 227: while (mapCurrentLevel.size && setBlocksToSend.size < Constants.MAX_BLOCKS_INV)
WalkGoesOn(mapNextLevel, setBlocksToSend) ==
    Len(mapNextLevel) > 0 /\ Cardinality(setBlocksToSend) < MAX_BLOCKS_INV

\* lines 213-227, after "await this._mainDagIndex.getChildren(...)"
WalkChildren(t) ==
    /\ task[t].pc = "wk_ch"
    /\ LET tk == task[t]
           strHash == walk.cur[walk.j].h
           rows == IF tk.ref = 0 THEN EmptyMap ELSE heap[tk.ref].rows
           objChildren == ChildrenIn(rows, strHash)
       IN \E sq \in KeyOrders(objChildren) :
            LET mapNextLevel == SetChildren(walk, objChildren, sq, 1, walk.next)
                bSend == strHash \notin MapKeys(walk.known) /\ strHash \notin walk.toSend
                setBlocksToSend == IF bSend THEN walk.toSend \cup {strHash} ELSE walk.toSend
                w == [walk EXCEPT !.next = mapNextLevel, !.toSend = setBlocksToSend]
                bBreak == bSend /\ Cardinality(setBlocksToSend) > MAX_BLOCKS_INV
            IN IF ~bBreak /\ walk.j < Len(walk.cur)
               THEN LET n == WalkGetChildren(pagesCache, tk, [w EXCEPT !.j = walk.j + 1])
                    IN Run(t, n.c, heap, db, mutex, n.tk, FALSE) /\ walk' = n.w
               ELSE IF WalkGoesOn(mapNextLevel, setBlocksToSend)
               THEN LET n == WalkGetChildren(pagesCache, tk,
                                 [w EXCEPT !.cur = mapNextLevel, !.next = << >>, !.j = 1])
                    IN Run(t, n.c, heap, db, mutex, n.tk, FALSE) /\ walk' = n.w
               ELSE Run(t, pagesCache, heap, db, mutex, Finished, FALSE)
                    /\ walk' = WalkReturn([w EXCEPT !.cur = mapNextLevel], setBlocksToSend)

WalkSteps(t) ==
    \/ WalkKnownInfo(t)
    \/ WalkKnownHas(t)
    \/ WalkGenesisInfo(t)
    \/ WalkGenesisHas(t)
    \/ WalkChildren(t)

\* the block stores of the walker runs: the whole DAG, or the chain
\* G, A, B, C, D with no BlockInfo for E
WalkStores == {Hashes, Hashes \ {"E"}}

InitWalk ==
    /\ stored \in WalkStores
    /\ pagesCache = EmptyMap
    /\ heap = EmptyMap
    /\ db = EmptyMap
    /\ clock = 1
    /\ mutex = [n \in {"dagIndexPage", "dagIndexOrder"} |-> 0]
    /\ task = [t \in Tasks |-> IdleTask]
    /\ added = {}
    /\ last = NoLast
    /\ pre = NoPre
    /\ walk = NoWalk
    /\ build = NoBuild
    /\ other = NoOther
    /\ calc = NoCalc
    /\ conc = FALSE
    /\ budget = Cardinality(Hashes) + 1

\* The node indexes the blocks it has, each once, and at some point serves
\* one peer's request.
NextWalk ==
    \/ \E b \in stored \ added : walk.st = "none" /\ addBlock(1, b)
    \/ \E arrHashes \in LastKnownChoices : walkStart(1, arrHashes)
    \/ AddSteps(1)
    \/ StorageSteps(1)
    \/ WalkSteps(1)
    \/ Tick

SpecWalk == InitWalk /\ [][NextWalk]_vars


(***************************************************************************)
(* Properties of the walker                                                *)
(***************************************************************************)
\* the blocks a block descends from, following parentHashes over the blocks
\* of the store S
RECURSIVE AncestorsIn(_, _)
AncestorsIn(S, b) ==
    LET P == Parents(b) \cap S
    IN P \cup UNION {AncestorsIn(S, p) : p \in P}

\* the blocks of S with an ancestor in L that are not in L themselves
DescendantsIn(S, L) == {b \in S \ L : AncestorsIn(S, b) \cap L # {}}

WalkDone == walk.st = "done"

LastKnown == {walk.arr[k] : k \in 1..Len(walk.arr)}

\* C13: the index was built by adding every block of the DAG, the walker was
\* called with hashes that were all added, and fewer than MAX_BLOCKS_INV
\* blocks descend from them: the walker returns all of these blocks.
C13_DescendantCompleteness ==
    WalkDone /\ added = stored /\ LastKnown # {} /\ LastKnown \subseteq added
        /\ Cardinality(DescendantsIn(stored, LastKnown)) < MAX_BLOCKS_INV
    => DescendantsIn(stored, LastKnown) \subseteq walk.toSend


\* what k steps along the entries E reach from the hashes of S, S excluded
\* unless an entry leads back to it
RECURSIVE ReachedIn(_, _, _)
ReachedIn(E, S, k) ==
    IF k = 0 THEN {}
    ELSE LET N == {e[2] : e \in {x \in E : x[1] \in S}}
         IN N \cup ReachedIn(E, N, k - 1)

Reached(E, S) == ReachedIn(E, S, Cardinality(Hashes))

\* C14: every hash the walker returns is reached from a known hash of
\* lastKnown along child entries the index held when the call started or,
\* when the recovery branch ran, is genesis or reached that way from genesis.
C14_DescendantSafety ==
    WalkDone
    => walk.toSend \subseteq
           IF walk.recovery
           THEN {GENESIS_BLOCK} \cup Reached(walk.rec, {GENESIS_BLOCK})
           ELSE Reached(walk.rec, MapKeys(walk.known))

\* a walk from a known hash that went two levels down and filled the answer
C14_Witness ==
    /\ WalkDone
    /\ ~walk.recovery
    /\ Cardinality(walk.toSend) = MAX_BLOCKS_INV
    /\ \E h \in walk.toSend : \A k \in MapKeys(walk.known) : << k, h >> \notin walk.rec


\* S is genesis and a chain above it: a block at each height 0..n, each but
\* genesis with one parent in the store, the block of S one level below
IsChain(S) ==
    /\ GENESIS_BLOCK \in S
    /\ \A b, c \in S : getHeight(b) = getHeight(c) => b = c
    /\ \A b \in S : getHeight(b) < Cardinality(S)
    /\ \A b \in S \ {GENESIS_BLOCK} :
           \E p \in S : Parents(b) \cap stored = {p} /\ getHeight(b) - getHeight(p) = 1

Min(x, y) == IF x < y THEN x ELSE y

\* the blocks of the chain S at heights k+1 .. min(n, k + MAX_BLOCKS_INV)
ChainAnswer(S, k) ==
    {b \in S : getHeight(b) > k
                 /\ getHeight(b) <= Min(Cardinality(S) - 1, k + MAX_BLOCKS_INV)}

\* C15: the index holds genesis and a chain of n blocks and the walker was
\* called with the hash of the block at height k alone: it returns the blocks
\* at heights k+1 .. min(n, k + MAX_BLOCKS_INV) and nothing else.
C15_PeerBehindOnChain ==
    WalkDone /\ IsChain(added) /\ Len(walk.arr) = 1 /\ LastKnown \subseteq added
    => \A h \in LastKnown : walk.toSend = ChainAnswer(added, getHeight(h))


\* the hashes of lastKnown that were processed vertices when the call started
KnownAtStart == LastKnown \cap walk.has0

\* C16: the walker takes the recovery branch (genesis the only known hash,
\* genesis in the answer) exactly when no hash of lastKnown is a processed
\* vertex and genesis is one; with genesis not processed either it answers
\* with the empty set; with some hash of lastKnown processed the known hashes
\* are these and the recovery branch is not taken.
C16_WrongDagRecovery ==
    WalkDone
    => /\ walk.recovery <=> (KnownAtStart = {} /\ GENESIS_BLOCK \in walk.has0)
       /\ walk.recovery
            => GENESIS_BLOCK \in walk.toSend /\ MapKeys(walk.known) = {GENESIS_BLOCK}
       /\ KnownAtStart = {} /\ GENESIS_BLOCK \notin walk.has0 => walk.toSend = {}
       /\ KnownAtStart # {} => MapKeys(walk.known) = KnownAtStart


(***************************************************************************)
(* NodeDagIndex._buildMainDagIndex (nodeDagIndex.js 493-533)               *)
(***************************************************************************)
\* what the node hands over at startup: getLastAppliedBlockHashes() and
\* getPendingBlockHashes(), and the hashes the store marks bad
StableChoices == {<< >>, << "G" >>, << "A" >>, << "B", "E" >>}

PendingChoices == {<< >>, << "D" >>, << "C" >>, << "B", "E" >>, << UNKNOWN_HASH >>}

BadChoices == {{}, {"C"}, {"E"}}

\* JS values as far as "if (v)" tells them apart: null and undefined have
\* type "null"
JsPromise == [type |-> "promise"]

Truthy(v) == v.type # "null"

\* the value of the call expression this._mainDagIndex.getBlockInfo(hash):
\* getBlockInfo is an async function (mainDagIndex.js:152), the call is not
\* awaited
GetBlockInfoCall(hash) == JsPromise

\* lines 499-500
StartingFrontier(arrLastStableHashes, arrPedingBlocksHashes) ==
    IF Len(arrPedingBlocksHashes) > 0 THEN arrPedingBlocksHashes ELSE arrLastStableHashes

\* The for loop of lines 505-524 over arrCurrentLevel from position k on, as
\* far as it runs without an await: each visit starts a getBlockInfo(hash) of
\* the index and takes "continue" on a truthy value.  The result tells the
\* calls started and the position of a hash not skipped (0: none).
RECURSIVE VisitLevel(_, _, _)
VisitLevel(arrCurrentLevel, k, calls) ==
    IF k > Len(arrCurrentLevel) THEN [calls |-> calls, load |-> 0]
    ELSE IF Truthy(GetBlockInfoCall(arrCurrentLevel[k]))
    THEN VisitLevel(arrCurrentLevel, k + 1, Append(calls, arrCurrentLevel[k]))
    ELSE [calls |-> Append(calls, arrCurrentLevel[k]), load |-> k]

\* _buildMainDagIndex from its call to its return: every hash of the level
\* is skipped, setNextLevel stays empty, so the loop ends after one level
\* (line 527 or the empty arrCurrentLevel of line 530).  The getBlockInfo
\* calls it started go on by themselves.
buildMainDagIndex(arrLastStableHashes, arrPedingBlocksHashes, bad) ==
    /\ build.st = "none"
    /\ Idle
    /\ LET arrCurrentLevel == StartingFrontier(arrLastStableHashes, arrPedingBlocksHashes)
           v == VisitLevel(arrCurrentLevel, 1, << >>)
       IN /\ Len(v.calls) <= NumTasks
          /\ v.load = 0
          /\ task' = [t \in Tasks |->
                         IF t <= Len(v.calls)
                         THEN [IdleTask EXCEPT !.op = "info", !.hash = v.calls[t], !.pc = "gi_info"]
                         ELSE IdleTask]
          /\ build' = [st |-> "done", stable |-> arrLastStableHashes,
                       pending |-> arrPedingBlocksHashes, bad |-> bad, threw |-> FALSE]
    /\ pagesCache' = EmptyMap
    /\ heap' = EmptyMap
    /\ UNCHANGED << stored, db, clock, mutex, conc, budget, added, last, pre, walk, other, calc >>

\* MainDagIndex.getBlockInfo (mainDagIndex.js 152-161) after
\* "await this._storage.getBlockInfo(strHash).catch(() => null)"
InfoBlock(t) ==
    /\ task[t].pc = "gi_info"
    /\ LET tk == task[t]
       IN IF tk.hash \notin stored
          THEN Step(t, pagesCache, heap, db, mutex, Finished, FALSE)
          ELSE LET n == CallGet(pagesCache, tk, getHeight(tk.hash), "gi_ret")
               IN Step(t, n.c, heap, db, mutex, n.tk, FALSE)

\* line 160
InfoReturn(t) ==
    /\ task[t].pc = "gi_ret"
    /\ Step(t, pagesCache, heap, db, mutex, Finished, FALSE)

InitStartup == InitIndex /\ conc = TRUE /\ budget = 0

NextStartup ==
    \/ \E st \in StableChoices, pe \in PendingChoices, bad \in BadChoices :
           buildMainDagIndex(st, pe, bad)
    \/ \E t \in Tasks : InfoBlock(t) \/ InfoReturn(t)
    \/ \E t \in Tasks : GetAcquire(t) \/ GetKv(t) \/ GetReturn(t)

SpecStartup == InitStartup /\ [][NextStartup]_vars

\* the hashes _buildMainDagIndex starts from
Frontier ==
    LET arr == StartingFrontier(build.stable, build.pending)
    IN {arr[k] : k \in 1..Len(arr)}

BuildReturned == build.st = "done" /\ ~build.threw /\ Idle

\* C17: _buildMainDagIndex has returned without error and nothing it started
\* is still running: every hash of the starting frontier and every ancestor
\* of it is a processed vertex of the index.
C17_StartupCompleteness ==
    BuildReturned
    => \A h \in Frontier :
           /\ h \in Hashes
           /\ \A b \in {h} \cup AncestorsIn(Hashes, h) : HasNow(b)

\* C18: _buildMainDagIndex does not return normally when the BlockInfo of a
\* hash of its frontier is missing from the store or marked bad.
C18_StartupAbortsOnCorruption ==
    build.st = "done" /\ (\E h \in Frontier : h \notin stored \/ h \in build.bad)
    => build.threw


(***************************************************************************)
(* The KV store fails (storageWithDagIndex.js 40-87): get() rejections are *)
(* caught and logged, put() rejections leave through "finally" and reject  *)
(* the handler that called the storage.                                    *)
(***************************************************************************)
MaxFaultOps == 2

\* getMainDagPageIndex: get() rejects, .catch(debug) gives undefined, the
\* call returns null after the release in "finally"
GetKvError(t) ==
    /\ task[t].pc = "get_kv"
    /\ Step(t, pagesCache, heap, db, [mutex EXCEPT !["dagIndexPage"] = 0],
            [task[t] EXCEPT !.val = {}, !.pc = "get_ret"], FALSE)

\* a setMainDagPageIndex without try/finally: the rejection of put() leaves
\* the call with the lock held
SetKvErrorNoFinally(t) ==
    /\ task[t].pc = "set_kv"
    /\ Step(t, pagesCache, heap, db, mutex, Finished, TRUE)

\* setMainDagPageIndex: put() rejects, "finally" releases, the rejection
\* goes up through _setMainDagPageIndex to addBlock or removeBlock
SetKvError(t) ==
    /\ task[t].pc = "set_kv"
    /\ Step(t, pagesCache, heap, db, [mutex EXCEPT !["dagIndexPage"] = 0], Finished, TRUE)

\* incMainDagIndexOrder: get() rejects, result is undefined, counted as 0
IncKvGetError(t) ==
    /\ task[t].pc = "inc_get"
    /\ Step(t, pagesCache, heap, db, mutex,
            [task[t] EXCEPT !.num = 0, !.pc = "inc_put"], FALSE)

\* incMainDagIndexOrder: put() rejects, "finally" releases, the handler rejects
IncKvPutError(t) ==
    /\ task[t].pc = "inc_put"
    /\ Step(t, pagesCache, heap, db, [mutex EXCEPT !["dagIndexOrder"] = 0], Finished, TRUE)

\* MainDagIndex.getOrder (mainDagIndex.js 163-165) up to the await of
\* storage.getMainDagIndexOrder's acquire
getOrder(t) ==
    /\ CanStart(t)
    /\ Step(t, pagesCache, heap, db, mutex,
            [IdleTask EXCEPT !.op = "order", !.pc = "ord_acq"], FALSE)

OrdAcquire(t) ==
    /\ task[t].pc = "ord_acq"
    /\ mutex["dagIndexOrder"] = 0
    /\ Step(t, pagesCache, heap, db, [mutex EXCEPT !["dagIndexOrder"] = t],
            [task[t] EXCEPT !.pc = "ord_kv"], FALSE)

\* get() answers or rejects, the number (or 0) is returned after the release
OrdKv(t) ==
    /\ task[t].pc = "ord_kv"
    /\ Step(t, pagesCache, heap, db, [mutex EXCEPT !["dagIndexOrder"] = 0], Finished, FALSE)

FaultSteps(t) ==
    \/ GetKvError(t)
    \/ SetKvError(t)
    \/ IncKvGetError(t)
    \/ IncKvPutError(t)

OrderSteps(t) == OrdAcquire(t) \/ OrdKv(t)

InitFault == InitIndex /\ conc = FALSE /\ budget = MaxFaultOps

NextFault ==
    \/ \E b \in Hashes : CanAdd(b) /\ addBlock(1, b)
    \/ \E b \in Hashes : CanRemove(b) /\ removeBlock(1, b)
    \/ getOrder(1)
    \/ AddSteps(1)
    \/ RemoveSteps(1)
    \/ StorageSteps(1)
    \/ FaultSteps(1)
    \/ OrderSteps(1)
    \/ Tick

SpecFault == InitFault /\ [][NextFault]_vars

\* where a task is while it holds the lock of that name
HoldingAt(name) ==
    IF name = "dagIndexPage" THEN {"get_kv", "set_kv"} ELSE {"inc_get", "inc_put", "ord_kv"}

\* C19: a lock is held only by a task that is inside the storage call that
\* acquired it; with no storage call in flight both locks are free, also
\* after the KV store rejected a read or a write.
C19_LockRelease ==
    /\ \A name \in DOMAIN mutex :
           mutex[name] # 0 => task[mutex[name]].pc \in HoldingAt(name)
    /\ Idle => \A name \in DOMAIN mutex : mutex[name] = 0

\* addBlock was rejected by a failed put() and the locks are free
C19_Witness ==
    /\ Idle
    /\ last.op = "add"
    /\ last.threw
    /\ \A name \in DOMAIN mutex : mutex[name] = 0


(***************************************************************************)
(* Handlers of every kind overlapping in time                              *)
(***************************************************************************)
\* the block the overlapping calls are about: the child of genesis
LiveHashes == {"A"}

InitLive == InitIndex /\ stored = Hashes /\ conc = TRUE /\ budget = MaxConcOps

\* a continuation of a handler that is ready to run
Progress ==
    \E t \in Tasks :
        \/ AddSteps(t)
        \/ RemoveSteps(t)
        \/ StorageSteps(t)
        \/ HasReturn(t)
        \/ GetChildrenReturn(t)

NextLive ==
    \/ \E t \in Tasks, b \in LiveHashes : addBlock(t, b)
    \/ \E t \in Tasks, b \in LiveHashes : removeBlock(t, b)
    \/ \E t \in Tasks, b \in LiveHashes : has(t, b)
    \/ \E t \in Tasks, b \in LiveHashes : getChildren(t, b)
    \/ Progress
    \/ Tick

\* The event loop runs a continuation that stays ready; the KV store answers
\* every request.
SpecLive == InitLive /\ [][NextLive]_vars /\ WF_vars(Progress)


\* where a task is while it waits for a lock
AcquirePcs == {"get_acq", "set_acq", "inc_acq", "ord_acq"}

NoTaskHoldsBoth ==
    \A t \in Tasks : ~(mutex["dagIndexPage"] = t /\ mutex["dagIndexOrder"] = t)

NoWaitWhileHolding ==
    \A t \in Tasks : task[t].pc \in AcquirePcs => \A name \in DOMAIN mutex : mutex[name] # t

\* C20: no task holds dagIndexPage and dagIndexOrder together or waits for a
\* lock while it holds one, and whatever addBlock, removeBlock, has and
\* getChildren calls overlap, all of them complete.
C20_DeadlockFreedom ==
    /\ [](NoTaskHoldsBoth /\ NoWaitWhileHolding)
    /\ []<>Idle

\* the two locks are held by two tasks at once while handlers of both run
C20_Witness ==
    /\ mutex["dagIndexPage"] # 0
    /\ mutex["dagIndexOrder"] # 0
    /\ mutex["dagIndexPage"] # mutex["dagIndexOrder"]


getBlockInfo(t, b) ==
    /\ CanStart(t)
    /\ Step(t, pagesCache, heap, db, mutex,
            [IdleTask EXCEPT !.op = "info", !.hash = b, !.pc = "gi_info"], FALSE)

getBlockHeight(t, b) ==
    /\ CanStart(t)
    /\ Step(t, pagesCache, heap, db, mutex,
            [IdleTask EXCEPT !.op = "height", !.hash = b, !.pc = "gh_info"], FALSE)

\* lines 128-133: no BlockInfo gives null, else has(strHash, nBlockHeight)
HeightBlock(t) ==
    /\ task[t].pc = "gh_info"
    /\ LET tk == task[t]
       IN IF tk.hash \notin stored
          THEN Step(t, pagesCache, heap, db, mutex, Finished, FALSE)
          ELSE LET n == CallGet(pagesCache, tk, getHeight(tk.hash), "gh_ret")
               IN Step(t, n.c, heap, db, mutex, n.tk, FALSE)

HeightReturn(t) ==
    /\ task[t].pc = "gh_ret"
    /\ Step(t, pagesCache, heap, db, mutex, Finished, FALSE)

\* what _getMainDagPageIndex handed to the query of task t: no page reads
\* as no rows
ReadRows(t) == IF task[t].ref = 0 THEN EmptyMap ELSE heap[task[t].ref].rows

\* the values the four queries return from their last line; {} is null
HasAnswer(t) == HasIn(ReadRows(t), task[t].hash)

ChildrenAnswer(t) == ChildrenIn(ReadRows(t), task[t].hash)

InfoAnswer(t) == IF HasIn(ReadRows(t), task[t].hash) THEN {task[t].hash} ELSE {}

HeightAnswer(t) == IF HasAnswer(t) THEN {getHeight(task[t].hash)} ELSE {}

\* The client of Spec also asks the four queries between its calls.
NextLookup ==
    \/ NextQuery
    \/ \E b \in QueryHashes : getBlockInfo(1, b)
    \/ \E b \in QueryHashes : getBlockHeight(1, b)
    \/ InfoBlock(1)
    \/ InfoReturn(1)
    \/ HeightBlock(1)
    \/ HeightReturn(1)

SpecLookup == Init /\ [][NextLookup]_vars

\* the query of the client returns from its last line
Returns(pc) == task[1].pc = pc /\ task'[1].pc = "idle"

\* C22: a query about a hash whose row was absent or a placeholder when the
\* query was called answers as for an unknown hash: has is not true,
\* getBlockHeight and getBlockInfo give null, getChildren gives the empty map,
\* whatever children the placeholder records.
C22_UnprocessedInvisible ==
    [][LET h == task[1].hash
       IN /\ \E pc \in {"has_ret", "ch_ret", "gi_ret", "gh_ret"} : Returns(pc)
          /\ ~HasIn(pre.pages[getPageIndexByHeight(getHeight(h))], h)
          => /\ Returns("has_ret") => ~HasAnswer(1)
             /\ Returns("ch_ret") => ChildrenAnswer(1) = EmptyMap
             /\ Returns("gi_ret") => InfoAnswer(1) = {}
             /\ Returns("gh_ret") => HeightAnswer(1) = {}]_vars

\* getChildren is about to return for a placeholder row that records children
C22_Witness ==
    /\ task[1].pc = "ch_ret"
    /\ task[1].hash \in DOMAIN ReadRows(1)
    /\ ~ReadRows(1)[task[1].hash].proc
    /\ ReadRows(1)[task[1].hash].ch # EmptyMap
    /\ task[1].hash \in stored


(***************************************************************************)
(* A caller keeps the object getChildren returned (mainDagIndex.js 116-123)*)
(***************************************************************************)
MaxCopyOps == 4

\* the blocks of these runs: A and its direct child B
CopyHashes == {"A", "B"}

\* getChildren(strHash, nBlockHeight) called by a task that keeps the result
keepChildren(t, b) ==
    /\ CanStart(t)
    /\ LET n == CallGet(pagesCache, [IdleTask EXCEPT !.op = "keep", !.hash = b],
                        getHeight(b), "kp_ret")
       IN Step(t, n.c, heap, db, mutex, n.tk, FALSE)

\* line 122: for a processed row the caller gets indexPage[strHash][1], the
\* object inside the row of the page object it keeps reachable (ref); else a
\* new {} (ref 0).  val remembers the map as it was returned.
KeepReturn(t) ==
    /\ task[t].pc = "kp_ret"
    /\ LET tk == task[t]
           rows == ReadRows(t)
       IN Step(t, pagesCache, heap, db, mutex,
               [tk EXCEPT !.pc = "hold",
                          !.ref = IF HasIn(rows, tk.hash) THEN tk.ref ELSE 0,
                          !.val = {ChildrenIn(rows, tk.hash)}],
               FALSE)

\* the object the caller holds is the children object of a row
HoldsRowObject(t) ==
    /\ task[t].pc = "hold"
    /\ task[t].ref # 0
    /\ task[t].hash \in DOMAIN heap[task[t].ref].rows

\* the map the caller holds, as it reads now
HeldMap(t) ==
    IF HoldsRowObject(t)
    THEN heap[task[t].ref].rows[task[t].hash].ch
    ELSE CHOOSE m \in task[t].val : TRUE

\* the caller deletes every key of the map it holds and lets go of it
CallerChanges(t) ==
    /\ HoldsRowObject(t)
    /\ HeldMap(t) # EmptyMap
    /\ LET tk == task[t]
           rows == heap[tk.ref].rows
       IN Step(t, pagesCache,
               SetRows(heap, tk.ref, Put(rows, tk.hash, Row(rows[tk.hash].proc, EmptyMap))),
               db, mutex, Finished, FALSE)

InitCopy == InitIndex /\ stored = Hashes /\ conc = TRUE /\ budget = MaxCopyOps

\* Task 1 adds and removes blocks, task 2 asks for the children of a block
\* and keeps the answer.  While the answer is kept task 1 only removes: an
\* addBlock replaces the children object of a row it extends (line 47-50).
NextCopy ==
    \/ \E b \in CopyHashes :
           (\A t \in Tasks : task[t].op # "keep") /\ addBlock(1, b)
    \/ \E b \in CopyHashes : (\A t \in Tasks : task[t].pc = "idle") /\ removeBlock(1, b)
    \/ \E b \in CopyHashes : (\A t \in Tasks : task[t].pc = "idle") /\ keepChildren(2, b)
    \/ \E b \in CopyHashes : task[2].pc = "hold" /\ removeBlock(1, b)
    \/ KeepReturn(2)
    \/ CallerChanges(2)
    \/ AddSteps(1)
    \/ RemoveSteps(1)
    \/ \E t \in Tasks : StorageSteps(t)
    \/ Tick

SpecCopy == InitCopy /\ [][NextCopy]_vars

\* C23: while a caller holds a map getChildren returned, no step of addBlock
\* or removeBlock changes what the map reads; and when the caller changes
\* the map, no page of the index changes, in the cache or in the store.
C23_ReturnsCopy ==
    [][\A t \in Tasks :
           task[t].pc = "hold"
           => /\ task'[t].pc = "hold" => HeldMap(t)' = HeldMap(t)
              /\ task'[t].pc = "idle"
                   => \A n \in PageIndexes :
                          /\ RowsNow(n)' = RowsNow(n)
                          /\ RowsOf(StoredPage(n))' = RowsOf(StoredPage(n))]_vars



(***************************************************************************)
(* What the callers see when the KV store rejects a request                *)
(* (storageWithDagIndex.js 40-87, mainDagIndex.js 163-165)                 *)
(***************************************************************************)
\* a getMainDagIndexOrder that stores the number it read
OrdKvGetStoring(t) ==
    /\ task[t].pc = "ord_kv"
    /\ Step(t, pagesCache, heap,
            Put(db, OrderKey(strDagPrefix), ToString(getMainDagIndexOrder)),
            [mutex EXCEPT !["dagIndexOrder"] = 0],
            [task[t] EXCEPT !.num = getMainDagIndexOrder, !.pc = "ord_ret"], FALSE)

\* getMainDagIndexOrder: get() answers, the lock is released, the number
\* read (0 without a record) is the value of the call
OrdKvGet(t) ==
    /\ task[t].pc = "ord_kv"
    /\ Step(t, pagesCache, heap, db, [mutex EXCEPT !["dagIndexOrder"] = 0],
            [task[t] EXCEPT !.num = getMainDagIndexOrder, !.pc = "ord_ret"], FALSE)

\* a getMainDagIndexOrder without .catch(): the rejection of get() reaches
\* the caller of getOrder
OrdKvGetErrorRaised(t) ==
    /\ task[t].pc = "ord_kv"
    /\ Step(t, pagesCache, heap, db, [mutex EXCEPT !["dagIndexOrder"] = 0], Finished, TRUE)

\* getMainDagIndexOrder: get() rejects, .catch(debug) gives undefined,
\* "result ? ... : 0" is 0
OrdKvGetError(t) ==
    /\ task[t].pc = "ord_kv"
    /\ Step(t, pagesCache, heap, db, [mutex EXCEPT !["dagIndexOrder"] = 0],
            [task[t] EXCEPT !.num = 0, !.pc = "ord_ret"], FALSE)

\* getOrder returns what the storage gave (mainDagIndex.js 164)
OrdReturn(t) ==
    /\ task[t].pc = "ord_ret"
    /\ Step(t, pagesCache, heap, db, mutex, Finished, FALSE)

NextPolicy ==
    \/ \E b \in Hashes : CanAdd(b) /\ addBlock(1, b)
    \/ \E b \in Hashes : CanRemove(b) /\ removeBlock(1, b)
    \/ getOrder(1)
    \/ AddSteps(1)
    \/ RemoveSteps(1)
    \/ StorageSteps(1)
    \/ FaultSteps(1)
    \/ OrdAcquire(1)
    \/ OrdKvGet(1)
    \/ OrdKvGetError(1)
    \/ OrdReturn(1)
    \/ Tick

SpecPolicy == InitFault /\ [][NextPolicy]_vars

\* the handler of the client fails in this step
Raises == task[1].pc # "idle" /\ task'[1].pc = "idle" /\ last'.threw

\* C24: the KV request of getMainDagPageIndex ends with the stored page or
\* with null and the one of getMainDagIndexOrder with the stored number or
\* with 0, and neither ends the handler that called; the KV put of
\* setMainDagPageIndex and of incMainDagIndexOrder either stores its value
\* and the handler goes on, or stores nothing and addBlock/removeBlock fails.
C24_KvErrorPolicy ==
    [][LET tk == task[1] IN
       /\ tk.pc = "get_kv" /\ task' # task
          => /\ task'[1].pc = "get_ret"
             /\ task'[1].val \in {StoredPage(tk.idx), {}}
             /\ db' = db
       /\ tk.pc = "ord_kv" /\ task' # task
          => /\ task'[1].pc = "ord_ret"
             /\ task'[1].num \in {getMainDagIndexOrder, 0}
             /\ db' = db
       /\ tk.pc = "set_kv" /\ task' # task
          => \/ /\ db' = Put(db, getDbRecordIndex(tk.idx), CHOOSE v \in tk.val : TRUE)
                /\ task'[1].pc = tk.ret
             \/ /\ db' = db
                /\ tk.op \in {"add", "remove"}
                /\ Raises
       /\ tk.pc = "inc_put" /\ task' # task
          => \/ /\ db' = Put(db, OrderKey(strDagPrefix), ToString(tk.num + tk.delta))
                /\ task'[1].pc = tk.ret
             \/ /\ db' = db
                /\ tk.op \in {"add", "remove"}
                /\ Raises]_vars

\* an addBlock failed on a rejected put(); the getOrder after it met a
\* rejected get() and is about to return 0 although the counter is stored
C24_Witness ==
    /\ last.op = "add"
    /\ last.threw
    /\ task[1].pc = "ord_ret"
    /\ task[1].num = 0
    /\ getMainDagIndexOrder > 0



(***************************************************************************)
(* Two MainDagIndex instances over one storage (mainDagIndex.js 10-17,     *)
(* 230-232).  The second instance is only constructed: no call is made on  *)
(* it, its cache stays empty, and what its queries would return is read    *)
(* from the storage under its own prefix.                                  *)
(***************************************************************************)
MaxGenOps == 2

\* milliseconds of Date.now() between the two constructor calls
ConstructionGaps == {0, 1}

\* Crypto.createHash(Date.now().toString()) of a constructor that runs ms
\* milliseconds after the one of the first instance: the same string gives
\* the same hash, another string another hash
PrefixAfter(ms) == IF ms = 0 THEN strDagPrefix ELSE strDagPrefix \o ToString(ms)

\* new MainDagIndex({storage}); within the millisecond of the first
\* constructor only when no handler was started in between
constructOther(ms) ==
    /\ ~other.made
    /\ Idle
    /\ ms = 0 => budget = MaxGenOps
    /\ other' = [made |-> TRUE, prefix |-> PrefixAfter(ms)]
    /\ UNCHANGED << stored, pagesCache, heap, db, clock, mutex, task, conc, budget, added,
                    last, pre, walk, build, calc >>

\* getOrder() of the second instance
OtherOrder ==
    IF OrderKey(other.prefix) \in DOMAIN db
    THEN ParseNumber(db[OrderKey(other.prefix)])
    ELSE 0

\* _getMainDagPageIndex of the second instance: its cache is empty, the
\* record is read under `${this._strDagPrefix}_${nPageIndex}`
OtherPage(nPageIndex) ==
    LET strKey == other.prefix \o "_" \o ToString(nPageIndex)
    IN IF strKey \in DOMAIN db THEN {JSONParse(db[strKey])} ELSE {}

\* has(strHash) of the second instance
OtherHas(strHash) ==
    /\ strHash \in stored
    /\ HasIn(RowsOf(OtherPage(getPageIndexByHeight(getHeight(strHash)))), strHash)

\* getChildren(strHash, nHeight) of the second instance
OtherChildren(strHash) ==
    ChildrenIn(RowsOf(OtherPage(getPageIndexByHeight(getHeight(strHash)))), strHash)

InitGen == InitIndex /\ stored = Hashes /\ conc = FALSE /\ budget = MaxGenOps

NextGen ==
    \/ \E ms \in ConstructionGaps : constructOther(ms)
    \/ \E b \in Hashes : CanAdd(b) /\ addBlock(1, b)
    \/ \E b \in Hashes : CanRemove(b) /\ removeBlock(1, b)
    \/ AddSteps(1)
    \/ RemoveSteps(1)
    \/ StorageSteps(1)
    \/ Tick

SpecGen == InitGen /\ [][NextGen]_vars

\* C25: a second instance on which no call was made reports getOrder() = 0,
\* has = false and no children for every hash, whenever it was constructed
\* and whatever was done on the first instance.
C25_GenerationsIsolated ==
    other.made
    => /\ OtherOrder = 0
       /\ \A h \in Hashes : ~OtherHas(h) /\ OtherChildren(h) = EmptyMap



(***************************************************************************)
(* The keys addBlock and removeBlock write (mainDagIndex.js 196-232,       *)
(* storageWithDagIndex.js 52-60, 77-87)                                    *)
(***************************************************************************)
\* the strides the heights of the blocks fall in
Strides == {getHeight(b) \div MAIN_DAG_INDEX_STEP : b \in Hashes}

\* <dagPrefix>_<pageIndex> for the values the paging formula takes
PageKeys == {strDagPrefix \o "_" \o ToString(k * (MAIN_DAG_INDEX_STEP - 1)) : k \in Strides}

\* the keys whose record a step writes anew or changes
KeysWritten == {k \in DOMAIN db' : k \notin DOMAIN db \/ db'[k] # db[k]}

\* C26: every record of the store that a step of addBlock or removeBlock
\* writes is under a page key of the instance's prefix or under its order
\* key, no step removes a record, and no page key is the order key.
C26_KeyNamespace ==
    [][/\ KeysWritten \subseteq PageKeys \cup {strDagPrefix \o "_order"}
       /\ DOMAIN db \subseteq DOMAIN db'
       /\ strDagPrefix \o "_order" \notin PageKeys]_vars

\* a removeBlock returned; page records and the order record are stored
C26_Witness ==
    /\ Idle
    /\ last.op = "remove"
    /\ strDagPrefix \o "_order" \in DOMAIN db
    /\ Cardinality(DOMAIN db \cap PageKeys) >= 2



(***************************************************************************)
(* _getPageIndexByHeight on its own (mainDagIndex.js 167-169), for every   *)
(* value of MAIN_DAG_INDEX_STEP up to MaxStep and heights up to MaxHeight  *)
(***************************************************************************)
MaxStep == 4

MaxHeight == 7

InitPaging ==
    /\ stored = Hashes
    /\ pagesCache = EmptyMap
    /\ heap = EmptyMap
    /\ db = EmptyMap
    /\ clock = 1
    /\ mutex = [n \in {"dagIndexPage", "dagIndexOrder"} |-> 0]
    /\ task = [t \in Tasks |-> IdleTask]
    /\ added = {}
    /\ last = NoLast
    /\ pre = NoPre
    /\ walk = NoWalk
    /\ build = NoBuild
    /\ other = NoOther
    /\ conc = FALSE
    /\ budget = 0
    /\ \E nStep \in 1..MaxStep : \E h1, h2 \in 0..MaxHeight :
           calc = [fn |-> "_getPageIndexByHeight", args |-> << nStep, h1, h2 >>, val |-> {}]

\* the two heights are mapped to their pages
PageOfHeights ==
    /\ calc.fn = "_getPageIndexByHeight"
    /\ calc.val = {}
    /\ calc' = [calc EXCEPT !.val = {<< PageIndexWithStep(calc.args[2], calc.args[1]),
                                       PageIndexWithStep(calc.args[3], calc.args[1]) >>}]
    /\ UNCHANGED << stored, pagesCache, heap, db, clock, mutex, task, conc, budget, added,
                    last, pre, walk, build, other >>

SpecPaging == InitPaging /\ [][PageOfHeights]_vars

\* C27: two heights that get the same page index are of the same stride
\* (floor(h / STEP) is the same), for every STEP >= 1.
C27_StridesDoNotSharePages ==
    \A v \in calc.val :
        v[1] = v[2] => calc.args[2] \div calc.args[1] = calc.args[3] \div calc.args[1]



(***************************************************************************)
(* StorageWithDagIndex._initMainDagIndexDb and dropAllForReIndex           *)
(* (storageWithDagIndex.js 20-33).  db is the content of the store at the  *)
(* path _initMainDagIndexDb opened.                                        *)
(***************************************************************************)
MaxReIndexOps == 2

\* the configuration constants that name a directory
DirectoryConstants == [DB_MAIN_DAG_INDEX_DIR |-> "mainDagIndex"]

\* `${Constants[name]}`: a property that is not there reads as undefined
ConstantText(name) ==
    IF name \in DOMAIN DirectoryConstants THEN DirectoryConstants[name] ELSE "undefined"

pathPrefix == "db"

\* `${this._pathPrefix}/${Constants.DB_MAIN_DAG_INDEX_DIR}` (line 22)
OpenedPath == pathPrefix \o "/" \o ConstantText("DB_MAIN_DAG_INDEX_DIR")

\* `${this._pathPrefix}/${Constants.DB_MAINDAG_INDEX_DIR}` (line 31)
DestroyedPath == pathPrefix \o "/" \o ConstantText("DB_MAINDAG_INDEX_DIR")

\* dropAllForReIndex: with a down-adapter that has destroy() the stores are
\* closed and leveldown.destroy(path) removes the store at that path
dropAllForReIndex(bHasDestroy) ==
    /\ calc = NoCalc
    /\ Idle
    /\ calc' = [fn |-> "dropAllForReIndex", args |-> << bHasDestroy >>, val |-> {}]
    /\ db' = IF bHasDestroy /\ DestroyedPath = OpenedPath THEN EmptyMap ELSE db
    /\ UNCHANGED << stored, pagesCache, heap, clock, mutex, task, conc, budget, added,
                    last, pre, walk, build, other >>

InitReIndex == InitIndex /\ stored = Hashes /\ conc = FALSE /\ budget = MaxReIndexOps

NextReIndex ==
    \/ \E b \in Hashes : calc = NoCalc /\ CanAdd(b) /\ addBlock(1, b)
    \/ \E b \in Hashes : calc = NoCalc /\ CanRemove(b) /\ removeBlock(1, b)
    \/ \E bHasDestroy \in BOOLEAN : dropAllForReIndex(bHasDestroy)
    \/ AddSteps(1)
    \/ RemoveSteps(1)
    \/ StorageSteps(1)
    \/ Tick

SpecReIndex == InitReIndex /\ [][NextReIndex]_vars

\* C28: after dropAllForReIndex with a down-adapter that supports destroy,
\* the store at the path _initMainDagIndexDb opened holds no record.
C28_DropDestroysIndexStore ==
    calc.fn = "dropAllForReIndex" /\ calc.args[1] => db = EmptyMap



(***************************************************************************)
(* What removeBlock leaves alone (mainDagIndex.js 75-114, 196-210)         *)
(***************************************************************************)
\* the row of strHash among rows: {} when absent, else {row}
RowIn(rows, strHash) == IF strHash \in DOMAIN rows THEN {rows[strHash]} ELSE {}

\* C29: no step of removeBlock(b) changes, in any stored page record, the
\* row of a block other than b and b's parents; and when removeBlock(b)
\* returns, the pages a query sees (cache first, else the store) hold for
\* every such block the row they held when the call started.
C29_RemoveFrame ==
    [][task[1].op = "remove" /\ task' # task
       => LET b == task[1].hash IN
          \A n \in PageIndexes : \A h \in Hashes \ ({b} \cup Parents(b)) :
              /\ RowIn(RowsOf(StoredPage(n))', h) = RowIn(RowsOf(StoredPage(n)), h)
              /\ Completes("remove")
                 => RowIn(Snapshot'.pages[n], h) = RowIn(pre.pages[n], h)]_vars



(***************************************************************************)
(* incMainDagIndexOrder / decMainDagIndexOrder called on their own,        *)
(* overlapping in time (storageWithDagIndex.js 73-87).  calc.args holds    *)
(* the counter before the first call and the deltas of the calls in the    *)
(* order they are issued.                                                  *)
(***************************************************************************)
MaxCounterCalls == 3

\* what the store holds under <prefix>_order before the first call
InitialOrders == {EmptyMap} \cup {Put(EmptyMap, OrderKey(strDagPrefix), ToString(n)) : n \in 0..1}

\* the delta of the call that is issued next
NextDelta == calc.args[MaxCounterCalls - budget + 2]

\* incMainDagIndexOrder(strDagPrefix) up to the await of acquire()
incMainDagIndexOrder(t) ==
    /\ CanStart(t)
    /\ NextDelta = 1
    /\ Step(t, pagesCache, heap, db, mutex,
            CallInc([IdleTask EXCEPT !.op = "inc"], 1, "inc_done"), FALSE)

\* decMainDagIndexOrder(strDagPrefix): incMainDagIndexOrder(strDagPrefix, -1)
decMainDagIndexOrder(t) ==
    /\ CanStart(t)
    /\ NextDelta = -1
    /\ Step(t, pagesCache, heap, db, mutex,
            CallInc([IdleTask EXCEPT !.op = "dec"], -1, "inc_done"), FALSE)

\* the call returns to whoever awaited it
IncDone(t) ==
    /\ task[t].pc = "inc_done"
    /\ Step(t, pagesCache, heap, db, mutex, Finished, FALSE)

InitCounter ==
    /\ stored = Hashes
    /\ pagesCache = EmptyMap
    /\ heap = EmptyMap
    /\ db \in InitialOrders
    /\ clock = 1
    /\ mutex = [n \in {"dagIndexPage", "dagIndexOrder"} |-> 0]
    /\ task = [t \in Tasks |-> IdleTask]
    /\ added = {}
    /\ last = NoLast
    /\ pre = NoPre
    /\ walk = NoWalk
    /\ build = NoBuild
    /\ other = NoOther
    /\ conc = TRUE
    /\ budget = MaxCounterCalls
    /\ \E d \in [1..MaxCounterCalls -> {1, -1}] :
           calc = [fn |-> "incMainDagIndexOrder",
                   args |-> << getMainDagIndexOrder >> \o d, val |-> {}]

NextCounter ==
    \/ \E t \in Tasks : incMainDagIndexOrder(t)
    \/ \E t \in Tasks : decMainDagIndexOrder(t)
    \/ \E t \in Tasks : IncAcquire(t)
    \/ \E t \in Tasks : IncKvGet(t)
    \/ \E t \in Tasks : IncKvPut(t)
    \/ \E t \in Tasks : IncDone(t)

SpecCounter == InitCounter /\ [][NextCounter]_vars

RECURSIVE SumFrom(_, _)
SumFrom(s, i) == IF i > Len(s) THEN 0 ELSE s[i] + SumFrom(s, i + 1)

\* C30: when all the calls issued have returned, the stored counter is the
\* counter before the first call plus the deltas of the calls, however the
\* calls overlapped.
C30_NoLostUpdate ==
    budget = 0 /\ Idle => getMainDagIndexOrder = SumFrom(calc.args, 1)

\* the last call is in flight: one call holds the lock between its get and
\* its put while another waits for the lock, after an earlier call changed
\* the counter
C30_Witness ==
    /\ budget = 0
    /\ \E t, u \in Tasks : task[t].pc = "inc_put" /\ task[u].pc = "inc_acq"
    /\ getMainDagIndexOrder # calc.args[1]



(***************************************************************************)
(* NodeDagIndex._storeBlockAndInfo (nodeDagIndex.js 798-820) for blocks    *)
(* that are not bad: addBlock(blockInfo) is awaited, then saveBlock.       *)
(* Queries of other handlers run between the two.                          *)
(***************************************************************************)
MaxStoreOps == 3

StoreHashes == {"G", "A"}

\* line 801: await this._mainDagIndex.addBlock(blockInfo), for a block the
\* block store does not hold yet; the call before it has saved its block
storeBlockAndInfo(t, b) ==
    /\ b \notin stored
    /\ added \subseteq stored
    /\ addBlock(t, b)

\* line 818: this._storage.saveBlock(block, blockInfo), after addBlock returned
SaveBlock ==
    /\ Idle
    /\ \E b \in added \ stored : stored' = stored \cup {b}
    /\ UNCHANGED << pagesCache, heap, db, clock, mutex, task, conc, budget, added, last, pre,
                    walk, build, other, calc >>

\* the block store when the index is constructed: empty, or holding genesis
StoreStarts == {{}, {"G"}}

InitStore ==
    /\ stored \in StoreStarts
    /\ pagesCache = EmptyMap
    /\ heap = EmptyMap
    /\ db = EmptyMap
    /\ clock = 1
    /\ mutex = [n \in {"dagIndexPage", "dagIndexOrder"} |-> 0]
    /\ task = [t \in Tasks |-> IdleTask]
    /\ added = {}
    /\ last = NoLast
    /\ pre = NoPre
    /\ walk = NoWalk
    /\ build = NoBuild
    /\ other = NoOther
    /\ calc = NoCalc
    /\ conc = FALSE
    /\ budget = MaxStoreOps

NextStore ==
    \/ \E b \in StoreHashes : storeBlockAndInfo(1, b)
    \/ SaveBlock
    \/ \E b \in StoreHashes : getBlockHeight(1, b)
    \/ HeightBlock(1)
    \/ HeightReturn(1)
    \/ AddSteps(1)
    \/ StorageSteps(1)
    \/ Tick

SpecStore == InitStore /\ [][NextStore]_vars

\* C31: when addBlock is called for a block its BlockInfo is in the block
\* store, and a getBlockHeight(hash) that returns after addBlock(hash)
\* returned does not give null.
C31_IndexedAfterStored ==
    [][/\ task[1].pc = "idle" /\ task'[1].op = "add" => task'[1].hash \in stored
       /\ task[1].op = "height" /\ task[1].pc # "idle" /\ task'[1].pc = "idle"
          /\ task[1].hash \in added
          => task[1].pc = "gh_ret" /\ HeightAnswer(1) # {}]_vars



(***************************************************************************)
(* The cache after a rejected page write (mainDagIndex.js 196-210)         *)
(***************************************************************************)
\* has and getChildren as the stored page records alone would answer them
HasStored(strHash) ==
    HasIn(RowsOf(StoredPage(getPageIndexByHeight(getHeight(strHash)))), strHash)

ChildrenStored(strHash) ==
    ChildrenIn(RowsOf(StoredPage(getPageIndexByHeight(getHeight(strHash)))), strHash)

\* C32: when addBlock or removeBlock fails because the put() of
\* setMainDagPageIndex was rejected, has and getChildren answer afterwards
\* for every block what the stored page records say.
C32_FailedWriteNotCached ==
    [][task[1].pc = "set_kv" /\ Raises
       => \A h \in Hashes : /\ HasNow(h)' = HasStored(h)'
                            /\ ChildrenNow(h)' = ChildrenStored(h)']_vars



\* C33: a removeBlock(b) that starts when no page holds a row of b returns
\* without raising, and getOrder() and the rows of every page are then what
\* they were when it started.
C33_RemoveAbsentIsNoop ==
    [][Completes("remove")
       /\ task[1].hash \notin DOMAIN pre.pages[getPageIndexByHeight(getHeight(task[1].hash))]
       => ~last'.threw /\ Snapshot' = pre]_vars



\* C34: the stored order counter, which is what getOrder() returns, is
\* never negative.
C34_OrderNonNegative == getMainDagIndexOrder >= 0


\* Longer call sequences about few blocks: B (its parent A gets a
\* placeholder row), G on A's page, and D on a third page
MaxDeepOps == 6

DeepHashes == {"B", "G", "D"}

InitDeep == InitIndex /\ stored = Hashes /\ conc = FALSE /\ budget = MaxDeepOps

NextDeep ==
    \/ \E b \in DeepHashes : CanAdd(b) /\ addBlock(1, b)
    \/ \E b \in DeepHashes : CanRemove(b) /\ removeBlock(1, b)
    \/ AddSteps(1)
    \/ RemoveSteps(1)
    \/ StorageSteps(1)
    \/ Tick

SpecDeep == InitDeep /\ [][NextDeep]_vars



\* C35: the set the walker builds, and returns, never has more than
\* MAX_BLOCKS_INV + 1 elements.
C35_ResponseCap == Cardinality(walk.toSend) <= MAX_BLOCKS_INV + 1

\* the walker returned MAX_BLOCKS_INV + 1 hashes: it left a level by "break"
C35_Witness == WalkDone /\ Cardinality(walk.toSend) = MAX_BLOCKS_INV + 1



(***************************************************************************)
(* The walker after blocks were added and removed                          *)
(***************************************************************************)
MaxSweepOps == 5

\* C and its child D lie on different pages; E shares the page of C
SweepHashes == {"C", "D", "E"}

InitSweep == InitIndex /\ stored = Hashes /\ conc = FALSE /\ budget = MaxSweepOps

NextSweep ==
    \/ \E b \in SweepHashes : walk.st = "none" /\ CanAdd(b) /\ addBlock(1, b)
    \/ \E b \in SweepHashes : walk.st = "none" /\ CanRemove(b) /\ removeBlock(1, b)
    \/ \E arrHashes \in LastKnownChoices : walkStart(1, arrHashes)
    \/ AddSteps(1)
    \/ RemoveSteps(1)
    \/ StorageSteps(1)
    \/ WalkSteps(1)
    \/ Tick

SpecSweep == InitSweep /\ [][NextSweep]_vars

\* C36: every hash the walker returns is of a block whose last completed
\* call was an addBlock.  (A hash gets into the index only by its addBlock,
\* so a returned hash outside "added" is one that was removed and not added
\* again.)
C36_NoRemovedBlockReturned == WalkDone => walk.toSend \subseteq added



MaxWalkLiveOps == 4

\* A and its two children: a level of the walk with two hashes
WalkLiveHashes == {"A", "B", "E"}

InitWalkLive == InitIndex /\ stored = Hashes /\ conc = FALSE /\ budget = MaxWalkLiveOps

NextWalkLive ==
    \/ \E b \in WalkLiveHashes : walk.st = "none" /\ CanAdd(b) /\ addBlock(1, b)
    \/ \E b \in WalkLiveHashes : walk.st = "none" /\ CanRemove(b) /\ removeBlock(1, b)
    \/ \E arrHashes \in LastKnownChoices : walkStart(1, arrHashes)
    \/ AddSteps(1)
    \/ RemoveSteps(1)
    \/ StorageSteps(1)
    \/ WalkSteps(1)
    \/ Tick

WalkProgress == WalkSteps(1) \/ StorageSteps(1)

SpecWalkLive == InitWalkLive /\ [][NextWalkLive]_vars /\ WF_vars(WalkProgress)

\* C38: every child a row records is one level above the row's block, and a
\* walker that was called returns.
C38_WalkerTerminates ==
    /\ [](\A e \in RecordedEntries : getHeight(e[2]) = getHeight(e[1]) + 1)
    /\ (walk.st = "run") ~> (walk.st = "done")

\* the walker went from A through the level of B and E and returned both
C38_Witness == WalkDone /\ walk.toSend = {"B", "E"} /\ MapKeys(walk.known) = {"A"}



(***************************************************************************)
(* The five queries between addBlock and removeBlock calls                 *)
(* (mainDagIndex.js 116-165, 171-194)                                      *)
(***************************************************************************)
QueryOps == {"has", "children", "info", "height", "order"}

NextReadOnly ==
    \/ NextLookup
    \/ getOrder(1)
    \/ OrdAcquire(1)
    \/ OrdKvGet(1)
    \/ OrdReturn(1)

SpecReadOnly == Init /\ [][NextReadOnly]_vars

\* the step is one of a query of the client, its first step included
QueryStep ==
    \/ task[1].pc = "idle" /\ task'[1].op \in QueryOps
    \/ task[1].pc # "idle" /\ task[1].op \in QueryOps

\* C39: no step of has, getChildren, getBlockHeight, getBlockInfo or
\* getOrder changes a record of the store; a page that stays in the cache
\* keeps its content and a page that enters the cache has the content of
\* its stored record.
C39_QueriesDoNotWrite ==
    [][QueryStep
       => /\ db' = db
          /\ \A n \in DOMAIN pagesCache' :
                 IF n \in DOMAIN pagesCache
                 THEN heap'[pagesCache'[n].data] = heap[pagesCache[n].data]
                 ELSE {heap'[pagesCache'[n].data]} = StoredPage(n)]_vars

\* getBlockHeight is about to return with a page that it read from the
\* store, after an addBlock wrote records and the counter
C39_Witness ==
    /\ task[1].op = "height"
    /\ task[1].pc = "gh_ret"
    /\ task[1].ref # 0
    /\ Cardinality(DOMAIN pagesCache) = MAIN_DAG_PAGES_IN_MEMORY
    /\ getMainDagIndexOrder > 0

====
